---- MODULE Spec2Model ----
(***************************************************************************)
(* Device session and state-decoding core of deebot.js.                    *)
(*                                                                         *)
(* Two session classes are modelled: VacBot_950type (MQTT/JSON models) and *)
(* VacBot_non950type (legacy models).  A synchronous handler is one action *)
(* and runs to completion; an async handler is one action up to its await  *)
(* and one action for the continuation of each pending call.               *)
(*                                                                         *)
(* JavaScript values whose type matters for `!==` are tagged pairs         *)
(* <<tag, n>>: <<"null",0>>, <<"num",n>>, <<"bool",0|1>>.                  *)
(***************************************************************************)
EXTENDS Integers, Sequences, FiniteSets, TLC

VARIABLES
    \* ---- VacBot_950type: map state
    currentMapMID,                  \* '' or the map ID in use
    mapVirtualBoundaries,           \* object: mapID -> list of <<mssid, type>>
    mapVirtualBoundariesResponses,  \* object: mapID -> <<vw received, mw received>>
    \* ---- VacBot_950type: positions
    mapSpotAreaInfos,               \* object: mapID -> object: mssid -> spot-area info
    deebotPosition,
    chargePosition,
    \* ---- VacBot_950type: clean logs
    cleanLog,                       \* object: log ID -> stored entry
    cleanLog_lastTimestamp,         \* 0 stands for the unset (null) value
    cleanLog_lastSquareMeters,
    cleanLog_lastTotalTime,
    cleanLog_lastTotalTimeString,
    cleanLog_lastImageUrl,
    \* ---- VacBot_950type: error state
    errorCode,
    errorDescription,
    components_950,                 \* this.components of the 950-type session
    \* ---- VacBot_950type: fields set by run
    createMapDataObject,
    createMapImage,
    createMapImageOnly,
    emitFullLifeSpanEvent,
    lastComponentValues,
    \* ---- VacBot_950type: clean and charge state
    currentSpotAreas,
    currentCustomAreaValues,
    cleanReport,
    chargeStatus,
    chargeMode,
    \* ---- VacBot_950type: full-map images
    mapImages,                      \* object: mapID -> object: image type -> image
    mapInfoPending,                 \* handleMapInfo calls awaiting updateMapPiece, in arrival order
    liveMapImage,                   \* the live map image, <<>> while there is none
    minorMapPending,                \* handleMinorMap calls awaiting updateMapPiece, in arrival order
    cleanLogsFetches,               \* calls of callCleanResultsLogsApi not yet resolved
    emitted,                        \* the events emitted by the last resolved fetch, in order
    ping_interval,                  \* legacy session: "null" or the handle of the last setInterval
    intervals,                      \* legacy session: number of keep-alive intervals running
    disconnected,                   \* legacy session: disconnect() was called since the last connect
    mapSubsetPending,               \* handleMapSubset calls awaiting mapPieceToIntArray, in arrival order
    currentMapName,
    currentMapIndex,
    maps,                           \* this.maps['maps']: the map registry, a list of EcovacsMap
    batteryLevel,
    batteryIsLow,
    vacuum_status,                  \* legacy session
    clean_status,                   \* legacy session
    fan_speed,                      \* legacy session
    \* ---- VacBot_non950type (legacy session)
    error_event,
    components,                     \* object: component -> remaining life (percent)
    \* ---- observation of the calls (history, not program state)
    logHist,                        \* clean-log entries stored so far
    last,                           \* the last call: operation, payload, return value
    joinHist                        \* per map: what was handled since the flags were reset

mapVars == <<currentMapMID, mapVirtualBoundaries, mapVirtualBoundariesResponses, joinHist>>

logVars == <<cleanLog, cleanLog_lastTimestamp, cleanLog_lastSquareMeters,
             cleanLog_lastTotalTime, cleanLog_lastTotalTimeString, cleanLog_lastImageUrl,
             logHist>>

posVars == <<mapSpotAreaInfos, deebotPosition, chargePosition>>

errVars == <<errorCode, errorDescription, error_event>>

lifeVars == <<components, components_950>>

runVars == <<createMapDataObject, createMapImage, createMapImageOnly, emitFullLifeSpanEvent,
             lastComponentValues>>

cleanVars == <<currentSpotAreas, currentCustomAreaValues, cleanReport, chargeStatus, chargeMode>>

imgVars == <<mapImages, mapInfoPending>>

liveVars == <<liveMapImage, minorMapPending>>

connVars == <<ping_interval, intervals, disconnected>>

fetchVars == <<cleanLogsFetches, emitted>>

cacheVars == <<currentMapName, currentMapIndex, maps>>

subsetVars == <<mapSubsetPending>>

battVars == <<batteryLevel, batteryIsLow>>

reportVars == <<vacuum_status, clean_status, fan_speed>>

extVars == <<subsetVars, battVars, reportVars>>

vars == <<mapVars, posVars, logVars, errVars, lifeVars, runVars, cleanVars, imgVars, liveVars, connVars, fetchVars,
          cacheVars, extVars, last>>

----------------------------------------------------------------------------
(* Bounds of the model *)

\* most virtual boundaries accumulated over all maps
MaxBoundaries == 4
\* clean-log timestamps are 1..MaxTs
MaxTs == 2
\* most handleMapInfo calls awaiting their piece at a time
MaxInFlight == 2
\* most keep-alive intervals running at a time
MaxIntervals == 2

\* most entries of a CachedMapInfo payload
MaxMaps == 2

----------------------------------------------------------------------------
(* Values *)

Undefined == "undefined"

\* map IDs are numeric-valued strings
MapIds == {"1", "2"}

\* the `mid` of an inbound payload: a map ID, or missing
PayloadMids == MapIds \cup {Undefined}

\* isNaN(v) for the values a `mid` takes: a missing one is not a number; the
\* empty string is one, since Number('') is 0
IsNaN(v) == v \notin {"0", "1", "2", ""}

\* Number(v) for the values a map ID argument takes
ToNumber(v) == CASE v = "0" -> 0 [] v = "1" -> 1 [] v = "2" -> 2 [] OTHER -> -1

\* typeof obj[key] !== 'undefined'
Has(obj, key) == key \in DOMAIN obj

\* the assignment reaches every key of the object
PutUnderEveryKey(obj, key, value) == [k \in (DOMAIN obj) \cup {key} |-> value]

\* obj[key] = value
Put(obj, key, value) == [k \in (DOMAIN obj) \cup {key} |-> IF k = key THEN value ELSE obj[k]]

Range(s) == {s[i] : i \in DOMAIN s}

\* the sequence without its i-th element
Without(seq, i) == [k \in 1..(Len(seq) - 1) |-> IF k < i THEN seq[k] ELSE seq[k + 1]]

NoCall == [op |-> "none"]

----------------------------------------------------------------------------
(* handleMapSet: virtual-boundary join *)

BoundaryTypes == {"vw", "mw"}

\* the `subsets` lists of the inbound MapSet payloads
SubsetSamples == {<<"0">>, <<"1", "0">>}

MapSetPayloads ==
    [mid : PayloadMids, type : {"vw", "mw", "ar", "xx"}, subsets : SubsetSamples]

\* new map.EcovacsMapVirtualBoundary(mssid, type) for every subset of the payload
NewBoundaries(payload) ==
    [i \in 1..Len(payload.subsets) |-> <<payload.subsets[i], payload.type>>]

\* the received-flags after a payload of the given type
MarkReceived(flags, type) ==
    IF type = "vw" THEN <<TRUE, flags[2]>>
    ELSE IF type = "mw" THEN <<flags[1], TRUE>>
    ELSE flags

BothReceivedEither(flags) == flags[1] \/ flags[2]

\* both responses were processed
BothReceived(flags) == flags[1] /\ flags[2]

\* the map a MapSet payload is about: its numeric mid, else the current map
ResolveMapMID(payload) == IF IsNaN(payload.mid) THEN currentMapMID ELSE payload.mid

\* number of boundaries stored over all maps
RECURSIVE SumLen(_, _)
SumLen(obj, keys) ==
    IF keys = {} THEN 0
    ELSE LET k == CHOOSE x \in keys : TRUE IN Len(obj[k]) + SumLen(obj, keys \ {k})

StoredBoundaries == SumLen(mapVirtualBoundaries, DOMAIN mapVirtualBoundaries)

EmptyJoin == [handled |-> {}, delivered |-> <<>>, emitted |-> 0]

HandleMapSet(payload) ==
    IF IsNaN(payload.mid) /\ currentMapMID = ""
    THEN /\ last' = [op |-> "handleMapSet", type |-> payload.type, mapMID |-> Undefined,
                     mapsetEvent |-> "skip", mapsetData |-> <<>>]
         /\ UNCHANGED mapVars
    ELSE
    LET mapMID == ResolveMapMID(payload) IN
    IF payload.type = "ar"
    THEN /\ last' = [op |-> "handleMapSet", type |-> payload.type, mapMID |-> mapMID,
                     mapsetEvent |-> "MapSpotAreas",
                     mapsetData |-> [i \in 1..Len(payload.subsets) |-> <<payload.subsets[i], "ar">>]]
         /\ UNCHANGED mapVars
    ELSE IF payload.type \in BoundaryTypes
    THEN LET old == IF Has(mapVirtualBoundaries, mapMID)
                    THEN mapVirtualBoundaries[mapMID] ELSE <<>>
             oldFlags == IF Has(mapVirtualBoundaries, mapMID)
                         THEN mapVirtualBoundariesResponses[mapMID] ELSE <<FALSE, FALSE>>
             list == old \o NewBoundaries(payload)
             flags == MarkReceived(oldFlags, payload.type)
             done == BothReceived(flags)
             h == joinHist[mapMID]
         IN /\ StoredBoundaries + Len(payload.subsets) <= MaxBoundaries
            /\ mapVirtualBoundaries' = Put(mapVirtualBoundaries, mapMID, list)
            /\ mapVirtualBoundariesResponses' = Put(mapVirtualBoundariesResponses, mapMID, flags)
            /\ last' = [op |-> "handleMapSet", type |-> payload.type, mapMID |-> mapMID,
                        mapsetEvent |-> IF done THEN "MapVirtualBoundaries" ELSE "skip",
                        mapsetData |-> IF done THEN list ELSE <<>>]
            /\ joinHist' = [joinHist EXCEPT ![mapMID] =
                               [handled |-> h.handled \cup {payload.type},
                                delivered |-> h.delivered \o NewBoundaries(payload),
                                emitted |-> h.emitted + (IF done THEN 1 ELSE 0)]]
            /\ UNCHANGED currentMapMID
    ELSE /\ last' = [op |-> "handleMapSet", type |-> payload.type, mapMID |-> mapMID,
                     mapsetEvent |-> "error", mapsetData |-> <<>>]
         /\ UNCHANGED mapVars

\* run('GetVirtualBoundaries', mapID): the received flags of the map are reset
\* the request round leaves the received-flags as they are
RunGetVirtualBoundariesKeepsFlags(mapID) ==
    IF ToNumber(mapID) > 0
    THEN /\ mapVirtualBoundariesResponses' =
                IF Has(mapVirtualBoundariesResponses, mapID) THEN mapVirtualBoundariesResponses
                ELSE Put(mapVirtualBoundariesResponses, mapID, <<FALSE, FALSE>>)
         /\ joinHist' = [joinHist EXCEPT ![mapID] = EmptyJoin]
    ELSE UNCHANGED <<mapVirtualBoundariesResponses, joinHist>>

RunGetVirtualBoundaries(mapID) ==
    IF ToNumber(mapID) > 0
    THEN /\ mapVirtualBoundariesResponses' =
                Put(mapVirtualBoundariesResponses, mapID, <<FALSE, FALSE>>)
         /\ joinHist' = [joinHist EXCEPT ![mapID] = EmptyJoin]
    ELSE UNCHANGED <<mapVirtualBoundariesResponses, joinHist>>

\* new map.EcovacsMap(mid, index, name, status, using, built); status and
\* built are carried along unread
EcovacsMap(mapID, mapIndex, mapName, using) ==
    [mapID |-> mapID, mapIndex |-> mapIndex, mapName |-> mapName, mapIsCurrentMap |-> (using = 1)]

\* the entries of a CachedMapInfo payload
CachedMapEntries ==
    {[mid |-> "1", index |-> 1, name |-> "home", using |-> 1],
     [mid |-> "1", index |-> 1, name |-> "home", using |-> 0],
     [mid |-> "2", index |-> 2, name |-> "office", using |-> 1],
     [mid |-> "2", index |-> 2, name |-> "office", using |-> 0],
     [mid |-> "0", index |-> 0, name |-> "", using |-> 0],
     [mid |-> "0", index |-> 3, name |-> "draft", using |-> 1]}

CachedMapInfoPayloads ==
    {[info |-> info] : info \in UNION {[1..n -> CachedMapEntries] : n \in 0..MaxMaps}}

\* the entries of the payload that enter the registry
RegisteredEntries(info) == SelectSeq(info, LAMBDA e : e.mid # "0")

\* the registered entries flagged as in use
EntriesInUse(info) == SelectSeq(RegisteredEntries(info), LAMBDA e : e.using = 1)

\* handleCachedMapInfo: rebuilds the registry and takes the current map from
\* the entries in use, the last one winning
HandleCachedMapInfo(payload) ==
    LET kept == RegisteredEntries(payload.info)
        used == EntriesInUse(payload.info)
    IN /\ maps' = [i \in 1..Len(kept) |->
                      EcovacsMap(kept[i].mid, kept[i].index, kept[i].name, kept[i].using)]
       /\ currentMapName' = IF used = <<>> THEN "unknown" ELSE used[Len(used)].name
       /\ currentMapMID' = IF used = <<>> THEN currentMapMID ELSE used[Len(used)].mid
       /\ currentMapIndex' = IF used = <<>> THEN currentMapIndex ELSE used[Len(used)].index
       /\ last' = [op |-> "handleCachedMapInfo", payload |-> payload]
       /\ UNCHANGED <<mapVirtualBoundaries, mapVirtualBoundariesResponses, joinHist>>

\* handleMapInfoV2: the payload's map becomes the current map
HandleMapInfoV2(payload) ==
    /\ currentMapMID' = payload.mid
    /\ currentMapName' = "standard"
    /\ currentMapIndex' = 0
    /\ maps' = <<EcovacsMap(payload.mid, 0, "standard", 1)>>
    /\ last' = [op |-> "handleMapInfoV2", mapMID |-> payload.mid]
    /\ UNCHANGED <<mapVirtualBoundaries, mapVirtualBoundariesResponses, joinHist>>

----------------------------------------------------------------------------
(* handlePos, handleMapSubset *)

Null == <<"null", 0>>
Num(n) == <<"num", n>>
Bool(b) == <<"bool", IF b THEN 1 ELSE 0>>
NaN == <<"nan", 0>>

\* Number(v) of a tagged value; defined for numbers and booleans
NumberOf(v) == v[2]

\* spot-area boundaries as they arrive in a MapSubSet payload, and the point
\* lists they decode to
BoundaryValues == {"A", "B"}

BoundaryPoints(value) ==
    IF value = "A" THEN << <<0, 0>>, <<2, 0>>, <<2, 2>>, <<0, 2>> >>
    ELSE << <<2, 0>>, <<4, 0>>, <<4, 2>>, <<2, 2>> >>

\* ray casting: does the edge from a to b cross the ray from (x, y) to the right
EdgeCrosses(x, y, a, b) ==
    /\ (a[2] > y) # (b[2] > y)
    /\ IF b[2] > a[2]
       THEN (x - a[1]) * (b[2] - a[2]) < (b[1] - a[1]) * (y - a[2])
       ELSE (x - a[1]) * (b[2] - a[2]) > (b[1] - a[1]) * (y - a[2])

IsPositionInPolygon(x, y, points) ==
    LET n == Len(points)
        crossing == {i \in 1..n : EdgeCrosses(x, y, points[i], points[(i % n) + 1])}
    IN Cardinality(crossing) % 2 = 1

\* mapTools.isPositionInSpotArea: the ID of the first spot area (in key
\* order) whose polygon holds the point, else 'unknown'
IsPositionInSpotArea(x, y, spotAreaInfos) ==
    LET inside == {k \in DOMAIN spotAreaInfos :
                      IsPositionInPolygon(x, y, BoundaryPoints(spotAreaInfos[k].mapSpotAreaBoundaries))}
    IN IF inside = {} THEN "unknown"
       ELSE spotAreaInfos[CHOOSE k \in inside : \A j \in inside : ToNumber(k) <= ToNumber(j)].mapSpotAreaID

\* this.mapSpotAreaInfos[mapID], an object without keys when it is undefined
SpotAreaInfosOf(mapID) == IF Has(mapSpotAreaInfos, mapID) THEN mapSpotAreaInfos[mapID] ELSE <<>>

\* getSpotAreaName: the name of the spot area on the current map
GetSpotAreaName(spotAreaID) ==
    IF Has(SpotAreaInfosOf(currentMapMID), spotAreaID)
    THEN SpotAreaInfosOf(currentMapMID)[spotAreaID].mapSpotAreaName ELSE "unknown"

\* mapTools.getDistanceToChargingStation, as the squared distance
GetDistanceToChargingStation(x, y, cx, cy) ==
    IF Null \in {x, y, cx, cy} THEN NaN
    ELSE Num((NumberOf(x) - NumberOf(cx)) * (NumberOf(x) - NumberOf(cx))
             + (NumberOf(y) - NumberOf(cy)) * (NumberOf(y) - NumberOf(cy)))

\* the entries of chargePos and the deebotPos of inbound Pos payloads
ChargePosSamples ==
    {[x |-> Num(1), y |-> Num(1), a |-> Num(0)], [x |-> Num(3), y |-> Num(1), a |-> Num(0)],
     [x |-> Num(1), y |-> Num(3), a |-> Num(0)], [x |-> Num(1), y |-> Num(1), a |-> Num(90)]}

DeebotPosSamples ==
    {[x |-> Num(1), y |-> Num(1), a |-> Num(0), invalid |-> Num(0)],
     [x |-> Num(3), y |-> Num(1), a |-> Num(0), invalid |-> Num(0)],
     [x |-> Num(1), y |-> Num(3), a |-> Num(0), invalid |-> Num(0)],
     [x |-> Num(1), y |-> Num(1), a |-> Num(90), invalid |-> Num(0)],
     [x |-> Num(1), y |-> Num(1), a |-> Num(0), invalid |-> Num(1)]}

ChargePosLists ==
    {<<c>> : c \in ChargePosSamples} \cup {<<c, d>> : <<c, d>> \in ChargePosSamples \X ChargePosSamples}

\* payloads of the device position, some with a charger position
PosPayloads ==
    {[deebotPos |-> d] : d \in DeebotPosSamples}
        \cup {[chargePos |-> <<c>>, deebotPos |-> d] :
                 <<c, d>> \in {[x |-> Num(1), y |-> Num(1), a |-> Num(0)],
                               [x |-> Num(3), y |-> Num(1), a |-> Num(0)]} \X DeebotPosSamples}
        \cup {<<>>}

\* payloads of the charger position, some with a device position
ChargePosPayloads ==
    {[chargePos |-> c] : c \in ChargePosLists}
        \cup {[chargePos |-> <<c>>, deebotPos |-> d] :
                 <<c, d>> \in ChargePosSamples
                                \X {[x |-> Num(3), y |-> Num(1), a |-> Num(0), invalid |-> Num(0)]}}

ChargePosChangedXY(chargePos) ==
    \/ chargePos[1].x # chargePosition.x
    \/ chargePos[1].y # chargePosition.y

\* check if position changed: the first charging station only
ChargePosChanged(chargePos) ==
    \/ chargePos[1].x # chargePosition.x
    \/ chargePos[1].y # chargePosition.y
    \/ chargePos[1].a # chargePosition.a

DeebotPosChangedXY(deebotPos) ==
    \/ deebotPos.x # deebotPosition.x
    \/ deebotPos.y # deebotPosition.y
    \/ deebotPosition.currentSpotAreaID = "unknown"

\* check if position changed or currentSpotAreaID unknown; `!==` compares the
\* payload's numeric `invalid` with the stored boolean isInvalid
DeebotPosChanged(deebotPos) ==
    \/ deebotPos.x # deebotPosition.x
    \/ deebotPos.y # deebotPosition.y
    \/ deebotPos.a # deebotPosition.a
    \/ deebotPos.invalid # deebotPosition.isInvalid
    \/ deebotPosition.currentSpotAreaID = "unknown"

\* the charger position after the first half of handlePos
NextChargePosition(payload) ==
    IF Has(payload, "chargePos") /\ ChargePosChanged(payload.chargePos)
    THEN [x |-> payload.chargePos[1].x, y |-> payload.chargePos[1].y,
          a |-> payload.chargePos[1].a, changeFlag |-> TRUE]
    ELSE chargePosition

\* the device position built from a changed deebotPos; charge is the charger
\* position stored by then
NewDeebotPosition(deebotPos, charge) ==
    LET currentSpotAreaID ==
            IsPositionInSpotArea(NumberOf(deebotPos.x), NumberOf(deebotPos.y),
                                 SpotAreaInfosOf(currentMapMID))
    IN [x |-> deebotPos.x,
        y |-> deebotPos.y,
        a |-> deebotPos.a,
        isInvalid |-> Bool(NumberOf(deebotPos.invalid) = 1),
        currentSpotAreaID |-> currentSpotAreaID,
        currentSpotAreaName |-> GetSpotAreaName(currentSpotAreaID),
        changeFlag |-> TRUE,
        distanceToChargingStation |->
            GetDistanceToChargingStation(deebotPos.x, deebotPos.y, charge.x, charge.y)]

HandlePos(payload) ==
    LET charge == NextChargePosition(payload)
        changed == Has(payload, "deebotPos") /\ DeebotPosChanged(payload.deebotPos)
    IN /\ chargePosition' = charge
       /\ deebotPosition' = IF changed THEN NewDeebotPosition(payload.deebotPos, charge)
                            ELSE deebotPosition
       /\ last' = [op |-> "handlePos",
                   deebotPos |-> IF Has(payload, "deebotPos") THEN <<payload.deebotPos>> ELSE <<>>,
                   chargePos |-> IF Has(payload, "chargePos") THEN payload.chargePos ELSE <<>>,
                   chargeReplaced |-> Has(payload, "chargePos") /\ ChargePosChanged(payload.chargePos),
                   deebotReplaced |-> changed]
       /\ UNCHANGED <<mapSpotAreaInfos, currentMapMID>>

\* the listener of the position events: emits a flagged position and clears
\* its changeFlag
EmitPosition ==
    /\ deebotPosition.changeFlag \/ chargePosition.changeFlag
    /\ deebotPosition' = [deebotPosition EXCEPT !.changeFlag = FALSE]
    /\ chargePosition' = [chargePosition EXCEPT !.changeFlag = FALSE]
    /\ UNCHANGED <<mapSpotAreaInfos, currentMapMID, last>>

\* the MapSubSet payloads of spot areas
MapSubsetPayloads ==
    {[mid |-> "1", type |-> "ar", mssid |-> "0", value |-> "A", name |-> "kitchen"],
     [mid |-> "1", type |-> "ar", mssid |-> "1", value |-> "B", name |-> ""],
     [mid |-> "2", type |-> "ar", mssid |-> "1", value |-> "A", name |-> "hall"],
     [mid |-> "2", type |-> "xx", mssid |-> "0", value |-> "A", name |-> ""]}

\* new map.EcovacsMapSpotAreaInfo(mapMID, mssid, connections, boundaries, subtype, customName)
EcovacsMapSpotAreaInfo(mapMID, payload) ==
    [mapID |-> mapMID, mapSpotAreaID |-> payload.mssid,
     mapSpotAreaBoundaries |-> payload.value, mapSpotAreaName |-> payload.name]

\* handleMapSubset for spot areas ('ar') and unknown types; the branch for
\* 'vw'/'mw' writes mapVirtualBoundaryInfos only
HandleMapSubset(payload) ==
    LET mapMID == IF IsNaN(payload.mid) THEN currentMapMID ELSE payload.mid IN
    IF payload.type = "ar"
    THEN LET info == EcovacsMapSpotAreaInfo(mapMID, payload) IN
         /\ mapSpotAreaInfos' =
                Put(mapSpotAreaInfos, mapMID, Put(SpotAreaInfosOf(mapMID), payload.mssid, info))
         /\ last' = [op |-> "handleMapSubset", mapsubsetEvent |-> "MapSpotAreaInfo",
                     mapsubsetData |-> info]
         /\ UNCHANGED <<deebotPosition, chargePosition, currentMapMID>>
    ELSE /\ last' = [op |-> "handleMapSubset", mapsubsetEvent |-> "error"]
         /\ UNCHANGED <<posVars, currentMapMID>>

\* the MapSubSet payloads of spot areas whose value is compressed
CompressedSubsetPayloads ==
    {[mid |-> c[1], type |-> "ar", mssid |-> c[2], value |-> c[3], name |-> "", compress |-> 1] :
        c \in {<<"1", "1", "A">>, <<Undefined, "0", "A">>, <<Undefined, "0", "B">>}}

\* map.mapPieceToIntArray(value): the decompressed boundaries
MapPieceToIntArray(value) == <<"ints", value>>

\* the map ID a handleMapSubset call works with, before anything is awaited
SubsetMapMIDWithoutFallback(payload) == payload.mid

SubsetMapMID(payload) == IF IsNaN(payload.mid) THEN currentMapMID ELSE payload.mid

\* handleMapSubset for a compressed spot area, up to the await of the
\* decompression: the map ID is a local of the suspended call
HandleMapSubsetCompressed(payload) ==
    /\ Len(mapSubsetPending) < MaxInFlight
    /\ mapSubsetPending' =
           Append(mapSubsetPending,
                  [mapMID |-> SubsetMapMID(payload), payload |-> payload,
                   activeOnArrival |-> currentMapMID])
    /\ last' = [op |-> "handleMapSubset", awaiting |-> payload]
    /\ UNCHANGED <<posVars, currentMapMID>>

\* the decompression of the i-th pending call resolves: the call builds the
\* spot-area info and stores it
MapSubsetDecoded(i) ==
    LET call == mapSubsetPending[i]
        mapMID == call.mapMID
        info == EcovacsMapSpotAreaInfo(
                    mapMID, [call.payload EXCEPT !.value = MapPieceToIntArray(call.payload.value)])
    IN /\ mapSubsetPending' = Without(mapSubsetPending, i)
       /\ mapSpotAreaInfos' =
              Put(mapSpotAreaInfos, mapMID, Put(SpotAreaInfosOf(mapMID), call.payload.mssid, info))
       /\ last' = [op |-> "handleMapSubset", mapsubsetEvent |-> "MapSpotAreaInfo",
                   mapsubsetData |-> info]
       /\ UNCHANGED <<deebotPosition, chargePosition, currentMapMID>>

----------------------------------------------------------------------------
(* handleResponseError (950 type), _handle_error (legacy) *)

\* the codes of the error-code lookup table; 0 and 100 mean 'no error'
KnownErrorCodes == {"0", "1", "100", "104"}

\* errorCodes[code]: the description of a known code
ErrorCodes(code) == <<"errorCodes", code>>

\* payload['code'].toString() for the codes of the model
CodeToString(code) ==
    CASE code = 0 -> "0" [] code = 1 -> "1" [] code = 100 -> "100"
      [] code = 104 -> "104" [] code = 999 -> "999"

\* the payloads of the 950-type Error message; the last has no code
ErrorPayloads ==
    {[code |-> c] : c \in {0, 100, 104, 999}}
        \cup {[code |-> 1, error |-> "timeout"], [error |-> "no code"]}

HandleResponseError(payload) ==
    IF ~Has(payload, "code")
    THEN \* payload['code'] is undefined: toString() throws a TypeError
         /\ last' = [op |-> "handleResponseError", payload |-> payload, threw |-> TRUE,
                     pre |-> <<errorCode, errorDescription>>]
         /\ UNCHANGED errVars
    ELSE LET code == CodeToString(payload.code) IN
         /\ errorCode' = code
         /\ errorDescription' =
                IF code \in KnownErrorCodes
                THEN IF code = "1" THEN ErrorCodes(code) \o <<": ", payload.error>>
                     ELSE ErrorCodes(code)
                ELSE <<"unknown errorCode: ", code>>
         /\ last' = [op |-> "handleResponseError", payload |-> payload, threw |-> FALSE,
                     pre |-> <<errorCode, errorDescription>>]
         /\ UNCHANGED error_event

\* the events of the legacy error message
ErrorEvents ==
    {[errno |-> c] : c \in {"0", "100", "104", "999"}}
        \cup {[errno |-> "100", error |-> "NoError"], [errno |-> "999", error |-> "stuck"],
              [errno |-> "999", errs |-> "110"], [error |-> "stuck", errs |-> "110"],
              [errno |-> "104", error |-> "stuck"], <<>>}

Text(v) == <<"text", v>>
NullText == <<"null">>

\* the value _handle_error stores, NullText when it stores nothing
ErrorOfEvent(event) ==
    LET fromErrno == IF Has(event, "errno") /\ event.errno \in KnownErrorCodes
                     THEN ErrorCodes(event.errno) ELSE NullText
        fromError == IF fromErrno = NullText /\ Has(event, "error")
                     THEN Text(event.error) ELSE fromErrno
    IN IF fromError = NullText /\ Has(event, "errs") THEN Text(event.errs) ELSE fromError

Handle_error(event) ==
    /\ last' = [op |-> "_handle_error", payload |-> event, threw |-> FALSE, pre |-> error_event]
    /\ IF Has(event, "errno") /\ event.errno \in KnownErrorCodes /\ event.errno = "100"
       THEN \* NoError: Robot is operational
            UNCHANGED errVars
       ELSE /\ error_event' = IF ErrorOfEvent(event) # NullText THEN ErrorOfEvent(event)
                              ELSE error_event
            /\ UNCHANGED <<errorCode, errorDescription>>

----------------------------------------------------------------------------
(* _handle_life_span (legacy), handleLifespan (950 type) *)

RECURSIVE GCD(_, _)
GCD(a, b) == IF b = 0 THEN a ELSE GCD(b, a % b)

\* the number n/d (d > 0, n >= 0), in lowest terms
Ratio(n, d) == LET g == GCD(n, d) IN <<"num", n \div g, d \div g>>

\* Number(v.toFixed(2)): v rounded to hundredths; NaN stays NaN
ToFixed2(v) ==
    IF v[1] = "nan" THEN v
    ELSE Ratio((2 * 100 * v[2] + v[3]) \div (2 * v[3]), 100)

IsZero(v) == v[1] = "num" /\ v[2] = 0

\* dictionary.COMPONENT_FROM_ECOVACS of the legacy models
ComponentTypes == {"Brush", "DustCaseHeap"}

ComponentFromEcovacs(type) == IF type = "Brush" THEN "main_brush" ELSE "filter"

\* an optional field of a payload: absent, or one of the values
Optional(name, values) == {<<>>} \cup {[k \in {name} |-> v] : v \in values}

\* the payload with the fields of both
Merge(f, g) == [k \in (DOMAIN f) \cup (DOMAIN g) |-> IF k \in DOMAIN f THEN f[k] ELSE g[k]]

\* the legacy life-span events: numeric wire fields as parseInt reads them
LifeSpanEvents ==
    {Merge(Merge(t, v), Merge(tot, l)) :
        <<t, v, tot, l>> \in Optional("type", {"Brush", "DustCaseHeap", "zz"})
                               \X Optional("val", {0, 1}) \X Optional("total", {3})
                               \X Optional("left", {2})}

\* the shapes tried with the left shapes first
LifeSpanOfLeftFirst(event) ==
    IF Has(event, "left") /\ Has(event, "total") THEN <<Ratio(event.left * 100, event.total)>>
    ELSE IF Has(event, "left") THEN <<Ratio(event.left, 60)>>
    ELSE IF Has(event, "val") /\ Has(event, "total") THEN <<Ratio(event.val * 100, event.total)>>
    ELSE IF Has(event, "val") THEN <<Ratio(event.val, 100)>>
    ELSE <<>>

\* the percentage of the first shape the event matches, none when no shape
\* matches
LifeSpanOf(event) ==
    IF Has(event, "val") /\ Has(event, "total") THEN <<Ratio(event.val * 100, event.total)>>
    ELSE IF Has(event, "val") THEN <<Ratio(event.val, 100)>>
    ELSE IF Has(event, "left") /\ Has(event, "total") THEN <<Ratio(event.left * 100, event.total)>>
    ELSE IF Has(event, "left") THEN <<Ratio(event.left, 60)>>
    ELSE <<>>

Handle_life_span(event) ==
    /\ last' = [op |-> "_handle_life_span", payload |-> event]
    /\ UNCHANGED components_950
    /\ IF ~(Has(event, "type") /\ event.type \in ComponentTypes)
       THEN \* unknown component type
            UNCHANGED components
       ELSE LET type == ComponentFromEcovacs(event.type)
                lifespan == LifeSpanOf(event)
            IN \* if (lifespan): null and 0 are not stored
               IF lifespan # <<>> /\ ~IsZero(lifespan[1])
               THEN components' = Put(components, type, lifespan[1])
               ELSE UNCHANGED components

\* dictionary.COMPONENT_FROM_ECOVACS of the 950-type models
ComponentTypes950 == {"brush", "heap"}

ComponentFromEcovacs950(type) == IF type = "brush" THEN "main_brush" ELSE "filter"

\* the entries of a 950-type LifeSpan payload
LifeSpanEntries ==
    {Merge([type |-> t], f) :
        <<t, f>> \in {"brush", "zz"}
                       \X {[left |-> 0, total |-> 3], [left |-> 2, total |-> 3],
                           [left |-> 2], [val |-> 1, total |-> 3]}}

\* a payload is a list of entries
LifeSpanPayloads ==
    {<<e>> : e \in LifeSpanEntries}
        \cup {<<[type |-> "brush", left |-> 2, total |-> 3], [type |-> "heap", left |-> 1, total |-> 3]>>}

\* parseInt(left) / parseInt(total) * 100, NaN when a field is missing
LifeSpanOf950(entry) ==
    IF Has(entry, "left") /\ Has(entry, "total") THEN Ratio(entry.left * 100, entry.total)
    ELSE NaN

RECURSIVE StoreLifespans(_, _, _)
StoreLifespans(comps, payload, i) ==
    IF i > Len(payload) THEN comps
    ELSE LET type == payload[i].type
             component == IF type \in ComponentTypes950 THEN ComponentFromEcovacs950(type)
                          ELSE type
         IN StoreLifespans(Put(comps, component, ToFixed2(LifeSpanOf950(payload[i]))),
                           payload, i + 1)

HandleLifespan(payload) ==
    /\ components_950' = StoreLifespans(components_950, payload, 1)
    /\ last' = [op |-> "handleLifespan", payload |-> payload]
    /\ UNCHANGED components

----------------------------------------------------------------------------
(* handleCleanLogs *)

LogIds == {"a", "b"}

\* the entries of inbound clean-log payloads: ts, area and last are numeric
\* wire fields, already coerced (Number, parseInt)
LogEntries ==
    UNION {{[id |-> i, ts |-> t, area |-> 10, last |-> 59, imageUrl |-> "u1"],
            [id |-> i, ts |-> t, area |-> 20, last |-> 3725, imageUrl |-> "u2"]}
           : <<i, t>> \in LogIds \X (1..MaxTs)}

\* lists of at most one entry, and of at most two
ShortLogLists == {<<>>} \cup {<<e>> : e \in LogEntries}

LogLists == ShortLogLists \cup {<<e, f>> : <<e, f>> \in LogEntries \X LogEntries}

\* a payload carries its list under 'logs', 'log' or 'data'
CleanLogPayloads ==
    {[logs |-> l] : l \in LogLists} \cup {[log |-> l] : l \in ShortLogLists}
        \cup {[data |-> l] : l \in ShortLogLists}
        \cup {[logs |-> <<[id |-> "a", ts |-> 1, area |-> 10, last |-> 59, imageUrl |-> "u1"]>>,
               data |-> <<[id |-> "b", ts |-> 1, area |-> 10, last |-> 59, imageUrl |-> "u1"]>>]}

\* a payload carrying lists under 'log' and 'data'
MixedLogPayloads ==
    {[log |-> <<[id |-> "a", ts |-> 1, area |-> 10, last |-> 59, imageUrl |-> "u1"]>>,
      data |-> <<[id |-> "b", ts |-> 1, area |-> 10, last |-> 59, imageUrl |-> "u1"]>>]}

\* the list under 'data' comes first
LogsOfDataFirst(payload) ==
    IF Has(payload, "data") THEN payload.data
    ELSE IF Has(payload, "logs") THEN payload.logs
    ELSE IF Has(payload, "log") THEN payload.log
    ELSE <<>>

\* the list the handler iterates
LogsOf(payload) ==
    IF Has(payload, "logs") THEN payload.logs
    ELSE IF Has(payload, "log") THEN payload.log
    ELSE IF Has(payload, "data") THEN payload.data
    ELSE <<>>

\* tools.getTimeStringFormatted(len): hours, minutes, seconds
GetTimeStringFormatted(len) == <<len \div 3600, (len % 3600) \div 60, len % 60>>

\* the entry stored for a log entry of the payload
StoredEntry(logEntry) ==
    [squareMeters |-> logEntry.area,
     timestamp |-> logEntry.ts,
     date |-> logEntry.ts * 1000,
     totalTime |-> logEntry.last,
     totalTimeFormatted |-> GetTimeStringFormatted(logEntry.last),
     imageUrl |-> logEntry.imageUrl]

LogExistingNever(log, id) == FALSE

\* this.cleanLog[id] is set: the log exists already
LogExisting(log, id) == Has(log, id)

NewerTimestampOrEqual(lastTimestamp, timestamp) ==
    (lastTimestamp <= timestamp) \/ (lastTimestamp = 0)

\* (this.cleanLog_lastTimestamp < timestamp) || (!this.cleanLog_lastTimestamp)
NewerTimestamp(lastTimestamp, timestamp) ==
    (lastTimestamp < timestamp) \/ (lastTimestamp = 0)

\* one round of the loop over the payload's entries; st holds the fields the
\* loop assigns
IngestLogEntry(st, logEntry) ==
    IF LogExisting(st.cleanLog, logEntry.id) THEN st
    ELSE LET newer == NewerTimestamp(st.lastTimestamp, logEntry.ts) IN
         [cleanLog |-> Put(st.cleanLog, logEntry.id, StoredEntry(logEntry)),
          lastImageUrl |-> IF newer THEN logEntry.imageUrl ELSE st.lastImageUrl,
          lastTimestamp |-> IF newer THEN logEntry.ts ELSE st.lastTimestamp,
          lastSquareMeters |-> IF newer THEN logEntry.area ELSE st.lastSquareMeters,
          lastTotalTime |-> IF newer THEN logEntry.last ELSE st.lastTotalTime,
          lastTotalTimeString |-> IF newer THEN GetTimeStringFormatted(logEntry.last)
                                  ELSE st.lastTotalTimeString,
          stored |-> Append(st.stored, logEntry)]

RECURSIVE IngestLogs(_, _, _)
IngestLogs(st, logs, i) ==
    IF i > Len(logs) THEN st ELSE IngestLogs(IngestLogEntry(st, logs[i]), logs, i + 1)

NoEntry == [id |-> "none", ts |-> 0, area |-> 0, last |-> 0, imageUrl |-> ""]

\* history: the stored entry whose timestamp first exceeded all before it, and
\* per log ID the first entry ever stored under it
RECURSIVE Remember(_, _, _)
Remember(h, stored, i) ==
    IF i > Len(stored) THEN h
    ELSE LET e == stored[i] IN
         Remember([newest |-> IF e.ts > h.newest.ts THEN e ELSE h.newest,
                   first |-> IF Has(h.first, e.id) THEN h.first ELSE Put(h.first, e.id, e)],
                  stored, i + 1)

HandleCleanLogs(payload) ==
    \E logs \in {LogsOf(payload)} :
    \E st \in {IngestLogs([cleanLog |-> <<>>,
                          lastImageUrl |-> cleanLog_lastImageUrl,
                          lastTimestamp |-> cleanLog_lastTimestamp,
                          lastSquareMeters |-> cleanLog_lastSquareMeters,
                          lastTotalTime |-> cleanLog_lastTotalTime,
                          lastTotalTimeString |-> cleanLog_lastTotalTimeString,
                          stored |-> <<>>], logs, 1)} :
       /\ cleanLog' = st.cleanLog
       /\ cleanLog_lastImageUrl' = st.lastImageUrl
       /\ cleanLog_lastTimestamp' = st.lastTimestamp
       /\ cleanLog_lastSquareMeters' = st.lastSquareMeters
       /\ cleanLog_lastTotalTime' = st.lastTotalTime
       /\ cleanLog_lastTotalTimeString' = st.lastTotalTimeString
       /\ logHist' = Remember(logHist, st.stored, 1)
       /\ last' = [op |-> "handleCleanLogs", logs |-> logs, stored |-> st.stored,
                   payload |-> payload]

----------------------------------------------------------------------------
(* run: command names and argument values *)

\* a command name is the sequence of its characters
LowerLetters ==
    <<"a", "b", "c", "d", "e", "f", "g", "h", "i", "j", "k", "l", "m",
      "n", "o", "p", "q", "r", "s", "t", "u", "v", "w", "x", "y", "z">>

UpperLetters ==
    <<"A", "B", "C", "D", "E", "F", "G", "H", "I", "J", "K", "L", "M",
      "N", "O", "P", "Q", "R", "S", "T", "U", "V", "W", "X", "Y", "Z">>

LetterIndex == 1..Len(LowerLetters)

\* the lower-case letter of every upper-case letter, and the reverse
UpperToLower ==
    [c \in {UpperLetters[i] : i \in LetterIndex} |->
        LowerLetters[CHOOSE i \in LetterIndex : UpperLetters[i] = c]]

LowerToUpper ==
    [c \in {LowerLetters[i] : i \in LetterIndex} |->
        UpperLetters[CHOOSE i \in LetterIndex : LowerLetters[i] = c]]

ToLowerChar(c) == IF c \in DOMAIN UpperToLower THEN UpperToLower[c] ELSE c

ToUpperChar(c) == IF c \in DOMAIN LowerToUpper THEN LowerToUpper[c] ELSE c

\* a comparison of names that keeps the case
ToLowerCaseKeepsCase(s) == s

\* String.prototype.toLowerCase
ToLowerCase(s) == [i \in 1..Len(s) |-> ToLowerChar(s[i])]

\* the spellings of a name a caller may use: as written, lower case, upper
\* case, and first letter swapped
Spellings(name) ==
    {name,
     [i \in 1..Len(name) |-> ToLowerChar(name[i])],
     [i \in 1..Len(name) |-> ToUpperChar(name[i])],
     [i \in 1..Len(name) |-> IF i # 1 THEN name[i]
                             ELSE IF ToLowerChar(name[i]) = name[i] THEN ToUpperChar(name[i])
                             ELSE ToLowerChar(name[i])]}

\* argument values: strings, numbers, booleans and undefined
Str(s) == <<"str", s>>
Undef == <<"undefined", 0>>

\* args[i] (i counts from 0)
ArgAt(args, i) == IF i < Len(args) THEN args[i + 1] ELSE Undef

\* !!v
Truthy(v) ==
    CASE v[1] = "str" -> v[2] # ""
      [] v[1] = "num" -> v[2] # 0
      [] v[1] = "bool" -> v[2] = 1
      [] OTHER -> FALSE

\* Number(v): the empty string is 0, a string that is no number is NaN
ToNumberValue(v) ==
    CASE v[1] = "str" -> IF v[2] = "" THEN Num(0)
                         ELSE IF ToNumber(v[2]) >= 0 THEN Num(ToNumber(v[2])) ELSE NaN
      [] v[1] = "num" -> v
      [] v[1] = "bool" -> Num(v[2])
      [] v[1] = "null" -> Num(0)
      [] OTHER -> NaN

IsPositive(n) == n[1] = "num" /\ n[2] > 0
IsNonNegative(n) == n[1] = "num" /\ n[2] >= 0

\* v.toString() throws for undefined and null
CanToString(v) == v[1] \notin {"undefined", "null"}

ArgToString(v) ==
    CASE v[1] = "str" -> v[2]
      [] v[1] = "num" -> (CASE v[2] = 0 -> "0" [] v[2] = 1 -> "1" [] v[2] = 2 -> "2")
      [] v[1] = "bool" -> IF v[2] = 1 THEN "true" ELSE "false"

\* v !== ''
NotEmptyString(v) == v # Str("")

\* a constructor parameter taken from args[i]
Arg(i) == <<"arg", i>>

\* the request `new VacBotCommand.<class>(params)`
Request(class, params) == [class |-> class, args |-> params]

\* the parameters of a request: args[i] or a literal
Params(params, args) ==
    [i \in 1..Len(params) |-> IF params[i][1] = "arg" THEN ArgAt(args, params[i][2]) ELSE params[i]]

----------------------------------------------------------------------------
(* VacBot_950type.run *)

\* the cases of the switch that send one command, when at least minArgs
\* arguments are given
SimpleCommands950 == {
    [label |-> <<"G", "e", "t", "W", "a", "t", "e", "r", "L", "e", "v", "e", "l">>,
     class |-> "GetWaterInfo", minArgs |-> 0, params |-> <<>>],
    [label |-> <<"G", "e", "t", "W", "a", "t", "e", "r", "B", "o", "x", "I", "n", "f", "o">>,
     class |-> "GetWaterInfo", minArgs |-> 0, params |-> <<>>],
    [label |-> <<"G", "e", "t", "W", "a", "t", "e", "r", "I", "n", "f", "o">>,
     class |-> "GetWaterInfo", minArgs |-> 0, params |-> <<>>],
    [label |-> <<"G", "e", "t", "E", "r", "r", "o", "r">>,
     class |-> "GetError", minArgs |-> 0, params |-> <<>>],
    [label |-> <<"R", "e", "l", "o", "c", "a", "t", "e">>,
     class |-> "Relocate", minArgs |-> 0, params |-> <<>>],
    [label |-> <<"G", "e", "t", "V", "o", "l", "u", "m", "e">>,
     class |-> "GetVolume", minArgs |-> 0, params |-> <<>>],
    [label |-> <<"S", "e", "t", "V", "o", "l", "u", "m", "e">>,
     class |-> "SetVolume", minArgs |-> 1, params |-> <<Arg(0)>>],
    [label |-> <<"E", "n", "a", "b", "l", "e", "A", "d", "v", "a", "n", "c", "e", "d", "M", "o", "d", "e">>,
     class |-> "SetAdvancedMode", minArgs |-> 0, params |-> <<Num(1)>>],
    [label |-> <<"D", "i", "s", "a", "b", "l", "e", "A", "d", "v", "a", "n", "c", "e", "d", "M", "o", "d", "e">>,
     class |-> "SetAdvancedMode", minArgs |-> 0, params |-> <<Num(0)>>],
    [label |-> <<"G", "e", "t", "A", "d", "v", "a", "n", "c", "e", "d", "M", "o", "d", "e">>,
     class |-> "GetAdvancedMode", minArgs |-> 0, params |-> <<>>],
    [label |-> <<"G", "e", "t", "T", "r", "u", "e", "D", "e", "t", "e", "c", "t">>,
     class |-> "GetTrueDetect", minArgs |-> 0, params |-> <<>>],
    [label |-> <<"E", "n", "a", "b", "l", "e", "T", "r", "u", "e", "D", "e", "t", "e", "c", "t">>,
     class |-> "SetTrueDetect", minArgs |-> 0, params |-> <<Num(1)>>],
    [label |-> <<"D", "i", "s", "a", "b", "l", "e", "T", "r", "u", "e", "D", "e", "t", "e", "c", "t">>,
     class |-> "SetTrueDetect", minArgs |-> 0, params |-> <<Num(0)>>],
    [label |-> <<"E", "m", "p", "t", "y", "D", "u", "s", "t", "B", "i", "n">>,
     class |-> "EmptyDustBin", minArgs |-> 0, params |-> <<>>],
    [label |-> <<"E", "m", "p", "t", "y", "S", "u", "c", "t", "i", "o", "n", "S", "t", "a", "t", "i", "o", "n">>,
     class |-> "EmptyDustBin", minArgs |-> 0, params |-> <<>>],
    [label |-> <<"G", "e", "t", "A", "u", "t", "o", "E", "m", "p", "t", "y">>,
     class |-> "GetAutoEmpty", minArgs |-> 0, params |-> <<>>],
    [label |-> <<"S", "e", "t", "A", "u", "t", "o", "E", "m", "p", "t", "y">>,
     class |-> "SetAutoEmpty", minArgs |-> 1, params |-> <<Arg(0)>>],
    [label |-> <<"E", "n", "a", "b", "l", "e", "A", "u", "t", "o", "E", "m", "p", "t", "y">>,
     class |-> "SetAutoEmpty", minArgs |-> 0, params |-> <<Num(1)>>],
    [label |-> <<"D", "i", "s", "a", "b", "l", "e", "A", "u", "t", "o", "E", "m", "p", "t", "y">>,
     class |-> "SetAutoEmpty", minArgs |-> 0, params |-> <<Num(0)>>],
    [label |-> <<"G", "e", "t", "D", "u", "s", "t", "e", "r", "R", "e", "m", "i", "n", "d">>,
     class |-> "GetDusterRemind", minArgs |-> 0, params |-> <<>>],
    [label |-> <<"S", "e", "t", "D", "u", "s", "t", "e", "r", "R", "e", "m", "i", "n", "d">>,
     class |-> "SetDusterRemind", minArgs |-> 1, params |-> <<Arg(0), Arg(1)>>],
    [label |-> <<"G", "e", "t", "C", "a", "r", "p", "e", "t", "P", "r", "e", "s", "s", "u", "r", "e">>,
     class |-> "GetCarpetPressure", minArgs |-> 0, params |-> <<>>],
    [label |-> <<"S", "e", "t", "C", "a", "r", "p", "e", "t", "P", "r", "e", "s", "s", "u", "r", "e">>,
     class |-> "SetCarpetPressure", minArgs |-> 1, params |-> <<Arg(0)>>],
    [label |-> <<"E", "n", "a", "b", "l", "e", "C", "a", "r", "p", "e", "t", "P", "r", "e", "s", "s", "u", "r", "e">>,
     class |-> "SetCarpetPressure", minArgs |-> 0, params |-> <<Num(1)>>],
    [label |-> <<"D", "i", "s", "a", "b", "l", "e", "C", "a", "r", "p", "e", "t", "P", "r", "e", "s", "s", "u", "r", "e">>,
     class |-> "SetCarpetPressure", minArgs |-> 0, params |-> <<Num(0)>>],
    [label |-> <<"G", "e", "t", "C", "l", "e", "a", "n", "S", "t", "a", "t", "e", "_", "V", "2">>,
     class |-> "GetCleanState_V2", minArgs |-> 0, params |-> <<>>],
    [label |-> <<"G", "e", "t", "C", "l", "e", "a", "n", "C", "o", "u", "n", "t">>,
     class |-> "GetCleanCount", minArgs |-> 0, params |-> <<>>],
    [label |-> <<"S", "e", "t", "C", "l", "e", "a", "n", "C", "o", "u", "n", "t">>,
     class |-> "SetCleanCount", minArgs |-> 1, params |-> <<Arg(0)>>],
    [label |-> <<"G", "e", "t", "C", "l", "e", "a", "n", "P", "r", "e", "f", "e", "r", "e", "n", "c", "e">>,
     class |-> "GetCleanPreference", minArgs |-> 0, params |-> <<>>],
    [label |-> <<"G", "e", "t", "A", "i", "r", "D", "r", "y", "i", "n", "g">>,
     class |-> "GetAirDrying", minArgs |-> 0, params |-> <<>>],
    [label |-> <<"S", "e", "t", "A", "i", "r", "D", "r", "y", "i", "n", "g">>,
     class |-> "SetAirDrying", minArgs |-> 1, params |-> <<Arg(0)>>],
    [label |-> <<"A", "i", "r", "D", "r", "y", "i", "n", "g", "S", "t", "a", "r", "t">>,
     class |-> "SetAirDrying", minArgs |-> 0, params |-> <<Str("start")>>],
    [label |-> <<"A", "i", "r", "D", "r", "y", "i", "n", "g", "S", "t", "o", "p">>,
     class |-> "SetAirDrying", minArgs |-> 0, params |-> <<Str("stop")>>],
    [label |-> <<"S", "e", "t", "C", "l", "e", "a", "n", "P", "r", "e", "f", "e", "r", "e", "n", "c", "e">>,
     class |-> "SetCleanPreference", minArgs |-> 1, params |-> <<Arg(0)>>],
    [label |-> <<"E", "n", "a", "b", "l", "e", "C", "l", "e", "a", "n", "P", "r", "e", "f", "e", "r", "e", "n", "c", "e">>,
     class |-> "SetCleanPreference", minArgs |-> 0, params |-> <<Num(1)>>],
    [label |-> <<"D", "i", "s", "a", "b", "l", "e", "C", "l", "e", "a", "n", "P", "r", "e", "f", "e", "r", "e", "n", "c", "e">>,
     class |-> "SetCleanPreference", minArgs |-> 0, params |-> <<Num(0)>>],
    [label |-> <<"G", "e", "t", "R", "e", "c", "o", "g", "n", "i", "z", "a", "t", "i", "o", "n">>,
     class |-> "GetRecognization", minArgs |-> 0, params |-> <<>>],
    [label |-> <<"G", "e", "t", "M", "a", "p", "S", "t", "a", "t", "e">>,
     class |-> "GetMapState", minArgs |-> 0, params |-> <<>>],
    [label |-> <<"G", "e", "t", "A", "I", "M", "a", "p">>,
     class |-> "GetAIMap", minArgs |-> 0, params |-> <<>>],
    [label |-> <<"G", "e", "t", "S", "w", "e", "e", "p", "M", "o", "d", "e">>,
     class |-> "GetSweepMode", minArgs |-> 0, params |-> <<>>],
    [label |-> <<"E", "n", "a", "b", "l", "e", "S", "w", "e", "e", "p", "M", "o", "d", "e">>,
     class |-> "SetSweepMode", minArgs |-> 0, params |-> <<Num(1)>>],
    [label |-> <<"D", "i", "s", "a", "b", "l", "e", "S", "w", "e", "e", "p", "M", "o", "d", "e">>,
     class |-> "SetSweepMode", minArgs |-> 0, params |-> <<Num(0)>>],
    [label |-> <<"S", "e", "t", "S", "w", "e", "e", "p", "M", "o", "d", "e">>,
     class |-> "SetSweepMode", minArgs |-> 1, params |-> <<Arg(0)>>],
    [label |-> <<"G", "e", "t", "B", "o", "r", "d", "e", "r", "S", "p", "i", "n">>,
     class |-> "GetBorderSpin", minArgs |-> 0, params |-> <<>>],
    [label |-> <<"E", "n", "a", "b", "l", "e", "B", "o", "r", "d", "e", "r", "S", "p", "i", "n">>,
     class |-> "SetBorderSpin", minArgs |-> 0, params |-> <<Num(1)>>],
    [label |-> <<"D", "i", "s", "a", "b", "l", "e", "B", "o", "r", "d", "e", "r", "S", "p", "i", "n">>,
     class |-> "SetBorderSpin", minArgs |-> 0, params |-> <<Num(0)>>],
    [label |-> <<"S", "e", "t", "B", "o", "r", "d", "e", "r", "S", "p", "i", "n">>,
     class |-> "SetBorderSpin", minArgs |-> 1, params |-> <<Arg(0)>>],
    [label |-> <<"G", "e", "t", "A", "i", "r", "Q", "u", "a", "l", "i", "t", "y">>,
     class |-> "GetAirQuality", minArgs |-> 0, params |-> <<>>],
    [label |-> <<"S", "i", "n", "g", "l", "e", "P", "o", "i", "n", "t", "_", "V", "2">>,
     class |-> "SinglePoint_V2", minArgs |-> 1, params |-> <<Arg(0)>>],
    [label |-> <<"A", "r", "e", "a", "_", "V", "2">>,
     class |-> "Area_V2", minArgs |-> 0, params |-> <<>>],
    [label |-> <<"G", "e", "t", "M", "a", "p", "S", "e", "t", "_", "V", "2">>,
     class |-> "GetMapSet_V2", minArgs |-> 0, params |-> <<>>],
    [label |-> <<"S", "e", "t", "M", "a", "p", "S", "e", "t", "_", "V", "2">>,
     class |-> "SetMapSet_V2", minArgs |-> 1, params |-> <<Arg(0)>>],
    [label |-> <<"S", "e", "t", "T", "h", "r", "e", "e", "M", "o", "d", "u", "l", "e">>,
     class |-> "SetThreeModule", minArgs |-> 3, params |-> <<Arg(0), Arg(1), Arg(2)>>],
    [label |-> <<"S", "e", "t", "F", "r", "e", "s", "h", "e", "n", "e", "r", "L", "e", "v", "e", "l">>,
     class |-> "SetFreshenerLevel", minArgs |-> 2, params |-> <<Arg(0), Arg(1)>>],
    [label |-> <<"S", "e", "t", "H", "u", "m", "i", "d", "i", "f", "i", "e", "r", "L", "e", "v", "e", "l">>,
     class |-> "SetHumidifierLevel", minArgs |-> 2, params |-> <<Arg(0), Arg(1)>>],
    [label |-> <<"S", "e", "t", "U", "V", "C", "l", "e", "a", "n", "e", "r">>,
     class |-> "SetUVCleaner", minArgs |-> 1, params |-> <<Arg(0)>>],
    [label |-> <<"S", "e", "t", "A", "t", "m", "o", "L", "i", "g", "h", "t">>,
     class |-> "SetAtmoLight", minArgs |-> 1, params |-> <<Arg(0)>>],
    [label |-> <<"S", "e", "t", "B", "l", "u", "e", "S", "p", "e", "a", "k", "e", "r">>,
     class |-> "SetBlueSpeaker", minArgs |-> 1, params |-> <<Arg(0)>>],
    [label |-> <<"S", "e", "t", "V", "o", "i", "c", "e", "S", "i", "m", "p", "l", "e">>,
     class |-> "SetVoiceSimple", minArgs |-> 1, params |-> <<Arg(0)>>],
    [label |-> <<"S", "e", "t", "B", "l", "o", "c", "k">>,
     class |-> "SetBlock", minArgs |-> 3, params |-> <<Arg(0), Arg(1), Arg(2)>>],
    [label |-> <<"S", "e", "t", "M", "o", "n", "i", "t", "o", "r", "A", "i", "r", "S", "t", "a", "t", "e">>,
     class |-> "SetMonitorAirState", minArgs |-> 1, params |-> <<Arg(0)>>],
    [label |-> <<"S", "e", "t", "A", "n", "g", "l", "e", "F", "o", "l", "l", "o", "w">>,
     class |-> "SetAngleFollow", minArgs |-> 1, params |-> <<Arg(0)>>],
    [label |-> <<"S", "e", "t", "M", "i", "c">>,
     class |-> "SetMic", minArgs |-> 1, params |-> <<Arg(0)>>],
    [label |-> <<"G", "e", "t", "L", "i", "v", "e", "L", "a", "u", "n", "c", "h", "P", "w", "d", "S", "t", "a", "t", "e">>,
     class |-> "GetLiveLaunchPwdState", minArgs |-> 0, params |-> <<>>],
    [label |-> <<"G", "e", "t", "H", "u", "m", "a", "n", "o", "i", "d", "F", "o", "l", "l", "o", "w">>,
     class |-> "GetHumanoidFollow", minArgs |-> 0, params |-> <<>>],
    [label |-> <<"G", "e", "t", "M", "o", "n", "i", "t", "o", "r", "A", "i", "r", "S", "t", "a", "t", "e">>,
     class |-> "GetMonitorAirState", minArgs |-> 0, params |-> <<>>],
    [label |-> <<"G", "e", "t", "V", "o", "i", "c", "e", "S", "i", "m", "p", "l", "e">>,
     class |-> "GetVoiceSimple", minArgs |-> 0, params |-> <<>>],
    [label |-> <<"G", "e", "t", "D", "r", "i", "v", "i", "n", "g", "W", "h", "e", "e", "l">>,
     class |-> "GetDrivingWheel", minArgs |-> 0, params |-> <<>>],
    [label |-> <<"G", "e", "t", "C", "h", "i", "l", "d", "L", "o", "c", "k">>,
     class |-> "GetChildLock", minArgs |-> 0, params |-> <<>>],
    [label |-> <<"G", "e", "t", "B", "l", "o", "c", "k">>,
     class |-> "GetBlock", minArgs |-> 0, params |-> <<>>],
    [label |-> <<"G", "e", "t", "T", "i", "m", "e", "Z", "o", "n", "e">>,
     class |-> "GetTimeZone", minArgs |-> 0, params |-> <<>>],
    [label |-> <<"G", "e", "t", "T", "o", "t", "a", "l", "S", "t", "a", "t", "s">>,
     class |-> "GetTotalStats", minArgs |-> 0, params |-> <<>>],
    [label |-> <<"G", "e", "t", "W", "i", "f", "i", "L", "i", "s", "t">>,
     class |-> "GetWifiList", minArgs |-> 0, params |-> <<>>],
    [label |-> <<"G", "e", "t", "O", "t", "a">>,
     class |-> "GetOta", minArgs |-> 0, params |-> <<>>],
    [label |-> <<"G", "e", "t", "T", "h", "r", "e", "e", "M", "o", "d", "u", "l", "e", "S", "t", "a", "t", "u", "s">>,
     class |-> "GetThreeModuleStatus", minArgs |-> 0, params |-> <<>>],
    [label |-> <<"G", "e", "t", "S", "c", "e", "n", "e">>,
     class |-> "GetScene", minArgs |-> 0, params |-> <<>>],
    [label |-> <<"G", "e", "t", "L", "i", "s", "t", "e", "n", "M", "u", "s", "i", "c">>,
     class |-> "GetListenMusic", minArgs |-> 0, params |-> <<>>],
    [label |-> <<"V", "i", "d", "e", "o", "O", "p", "e", "n", "e", "d">>,
     class |-> "VideoOpened", minArgs |-> 0, params |-> <<>>],
    [label |-> <<"G", "e", "t", "A", "u", "d", "i", "o", "C", "a", "l", "l", "S", "t", "a", "t", "e">>,
     class |-> "GetAudioCallState", minArgs |-> 0, params |-> <<>>],
    [label |-> <<"S", "e", "t", "V", "o", "i", "c", "e">>,
     class |-> "SetVoice", minArgs |-> 6, params |-> <<Arg(0), Arg(1), Arg(2), Arg(3), Arg(4), Arg(5)>>],
    [label |-> <<"S", "e", "t", "V", "o", "i", "c", "e", "A", "s", "s", "i", "s", "t", "a", "n", "t", "S", "t", "a", "t", "e">>,
     class |-> "SetVoiceAssistantState", minArgs |-> 1, params |-> <<Arg(0)>>],
    [label |-> <<"G", "e", "t", "V", "o", "i", "c", "e", "L", "i", "f", "e", "R", "e", "m", "i", "n", "d", "S", "t", "a", "t", "e">>,
     class |-> "GetVoiceLifeRemindState", minArgs |-> 0, params |-> <<>>],
    [label |-> <<"G", "e", "t", "B", "r", "e", "a", "k", "P", "o", "i", "n", "t">>,
     class |-> "GetBreakPoint", minArgs |-> 0, params |-> <<>>],
    [label |-> <<"G", "e", "t", "R", "e", "l", "o", "c", "a", "t", "i", "o", "n", "S", "t", "a", "t", "e">>,
     class |-> "GetRelocationState", minArgs |-> 0, params |-> <<>>],
    [label |-> <<"G", "e", "t", "A", "n", "t", "i", "D", "r", "o", "p">>,
     class |-> "GetAntiDrop", minArgs |-> 0, params |-> <<>>],
    [label |-> <<"G", "e", "t", "M", "a", "p", "T", "r", "a", "c", "e", "_", "V", "2">>,
     class |-> "GetMapTrace_V2", minArgs |-> 1, params |-> <<Arg(0)>>]}

\* the names of the cases with a body of their own
CmdGetMapImage == <<"G", "e", "t", "M", "a", "p", "I", "m", "a", "g", "e">>
CmdGetMaps == <<"G", "e", "t", "M", "a", "p", "s">>
CmdGetSpotAreas == <<"G", "e", "t", "S", "p", "o", "t", "A", "r", "e", "a", "s">>
CmdGetSpotAreaInfo == <<"G", "e", "t", "S", "p", "o", "t", "A", "r", "e", "a", "I", "n", "f", "o">>
CmdGetVirtualBoundaries == <<"G", "e", "t", "V", "i", "r", "t", "u", "a", "l", "B", "o", "u", "n", "d", "a", "r", "i", "e", "s">>
CmdGetVirtualBoundaryInfo == <<"G", "e", "t", "V", "i", "r", "t", "u", "a", "l", "B", "o", "u", "n", "d", "a", "r", "y", "I", "n", "f", "o">>
CmdAddVirtualBoundary == <<"A", "d", "d", "V", "i", "r", "t", "u", "a", "l", "B", "o", "u", "n", "d", "a", "r", "y">>
CmdDeleteVirtualBoundary == <<"D", "e", "l", "e", "t", "e", "V", "i", "r", "t", "u", "a", "l", "B", "o", "u", "n", "d", "a", "r", "y">>
CmdGetLifeSpan == <<"G", "e", "t", "L", "i", "f", "e", "S", "p", "a", "n">>
CmdEnableDoNotDisturb == <<"E", "n", "a", "b", "l", "e", "D", "o", "N", "o", "t", "D", "i", "s", "t", "u", "r", "b">>
CmdSetDoNotDisturb == <<"S", "e", "t", "D", "o", "N", "o", "t", "D", "i", "s", "t", "u", "r", "b">>
CmdGetCleanLogs == <<"G", "e", "t", "C", "l", "e", "a", "n", "L", "o", "g", "s">>
CmdClean_V2 == <<"C", "l", "e", "a", "n", "_", "V", "2">>
CmdSpotArea_V2 == <<"S", "p", "o", "t", "A", "r", "e", "a", "_", "V", "2">>
CmdCustomArea_V2 == <<"C", "u", "s", "t", "o", "m", "A", "r", "e", "a", "_", "V", "2">>
CmdMapPoint_V2 == <<"M", "a", "p", "P", "o", "i", "n", "t", "_", "V", "2">>

SpecialCases ==
    <<<<CmdGetMapImage, "GetMapImage">>,
      <<CmdGetMaps, "GetMaps">>,
      <<CmdGetSpotAreas, "GetSpotAreas">>,
      <<CmdGetSpotAreaInfo, "GetSpotAreaInfo">>,
      <<CmdGetVirtualBoundaries, "GetVirtualBoundaries">>,
      <<CmdGetVirtualBoundaryInfo, "GetVirtualBoundaryInfo">>,
      <<CmdAddVirtualBoundary, "AddVirtualBoundary">>,
      <<CmdDeleteVirtualBoundary, "DeleteVirtualBoundary">>,
      <<CmdGetLifeSpan, "GetLifeSpan">>,
      <<CmdEnableDoNotDisturb, "EnableDoNotDisturb">>,
      <<CmdSetDoNotDisturb, "SetDoNotDisturb">>,
      <<CmdGetCleanLogs, "GetCleanLogs">>,
      <<CmdClean_V2, "Clean_V2">>,
      <<CmdSpotArea_V2, "SpotArea_V2">>,
      <<CmdCustomArea_V2, "CustomArea_V2">>,
      <<CmdMapPoint_V2, "MapPoint_V2">>>>

SpecialCommands950 == {SpecialCases[k][1] : k \in 1..Len(SpecialCases)}

\* the commands of the catalog the base class dispatches: one request without
\* parameters each
BaseCommands == {
    [label |-> <<"C", "h", "a", "r", "g", "e">>, class |-> "Charge"],
    [label |-> <<"S", "t", "o", "p">>, class |-> "Stop"],
    [label |-> <<"P", "a", "u", "s", "e">>, class |-> "Pause"],
    [label |-> <<"R", "e", "s", "u", "m", "e">>, class |-> "Resume"],
    [label |-> <<"G", "e", "t", "C", "h", "a", "r", "g", "e", "S", "t", "a", "t", "e">>, class |-> "GetChargeState"],
    [label |-> <<"G", "e", "t", "B", "a", "t", "t", "e", "r", "y", "S", "t", "a", "t", "e">>, class |-> "GetBatteryState"],
    [label |-> <<"G", "e", "t", "C", "l", "e", "a", "n", "S", "t", "a", "t", "e">>, class |-> "GetCleanState"]}

\* the case labels as the switch compares them
Label950 ==
    [l \in {ToLowerCase(c) : c \in SpecialCommands950} |->
        CHOOSE k \in 1..Len(SpecialCases) : ToLowerCase(SpecialCases[k][1]) = l]

\* the case of the switch a lower-case name selects, "default" when none
CaseOf(name) == IF name \in DOMAIN Label950 THEN SpecialCases[Label950[name]][2] ELSE "default"
SimpleLabels950 ==
    [l \in {ToLowerCase(r.label) : r \in SimpleCommands950} |->
        CHOOSE r \in SimpleCommands950 : ToLowerCase(r.label) = l]
BaseLabels ==
    [l \in {ToLowerCase(r.label) : r \in BaseCommands} |->
        CHOOSE r \in BaseCommands : ToLowerCase(r.label) = l]

\* the device as the capability table and the constructor describe it
DefaultDevice ==
    [hasMainBrush |-> TRUE, hasUnitCareInfo |-> FALSE, hasRoundMopInfo |-> FALSE,
     modelType |-> "950", deviceClass |-> "yna5xi", isMapImageSupported |-> TRUE,
     isAirPurifier |-> FALSE]

DeviceSamples ==
    {DefaultDevice,
     [DefaultDevice EXCEPT !.hasMainBrush = FALSE, !.hasUnitCareInfo = TRUE, !.modelType = "T9"],
     [DefaultDevice EXCEPT !.hasRoundMopInfo = TRUE, !.deviceClass = "p5nx9u",
                           !.isMapImageSupported = FALSE],
     [DefaultDevice EXCEPT !.hasUnitCareInfo = TRUE, !.hasRoundMopInfo = TRUE,
                           !.isAirPurifier = TRUE]}

\* tools.isValidVirtualWallType
IsValidVirtualWallType(v) == v \in {Str("vw"), Str("mw")}

\* dictionary.COMPONENT_TO_ECOVACS of the 950-type models
ComponentToEcovacs(component) ==
    CASE component = Str("filter") -> Str("heap")
      [] component = Str("side_brush") -> Str("sideBrush")
      [] component = Str("main_brush") -> Str("brush")
      [] component = Str("unit_care") -> Str("unitCare")
      [] component = Str("round_mop") -> Str("roundMop")
      [] OTHER -> Undef

\* the outcome of a call: the requests handed to sendCommand in order, whether
\* a TypeError was thrown, whether the REST collaborator was called
Outcome(sent) == [sent |-> sent, threw |-> FALSE, fetch |-> FALSE]
Thrown == [sent |-> <<>>, threw |-> TRUE, fetch |-> FALSE]

\* super.run(command, ...args)
SuperRun(name, args) ==
    IF name \in DOMAIN BaseLabels
    THEN <<Request(BaseLabels[name].class, <<>>)>>
    ELSE <<>>

\* every component, whatever the device
ComponentsArrayAll(device) ==
    <<ComponentToEcovacs(Str("filter")), ComponentToEcovacs(Str("side_brush")),
      ComponentToEcovacs(Str("main_brush")), ComponentToEcovacs(Str("unit_care")),
      ComponentToEcovacs(Str("round_mop"))>>

\* componentsArray of run('GetLifeSpan') without arguments
ComponentsArray(device) ==
    <<ComponentToEcovacs(Str("filter")), ComponentToEcovacs(Str("side_brush"))>>
        \o (IF device.hasMainBrush THEN <<ComponentToEcovacs(Str("main_brush"))>> ELSE <<>>)
        \o (IF device.hasUnitCareInfo THEN <<ComponentToEcovacs(Str("unit_care"))>> ELSE <<>>)
        \o (IF device.hasRoundMopInfo THEN <<ComponentToEcovacs(Str("round_mop"))>> ELSE <<>>)

\* the body of the switch: name is command.toLowerCase(), case the case it
\* selects
Switch950(case, name, args, device) ==
    LET a0 == ArgAt(args, 0)
        a1 == ArgAt(args, 1)
        a2 == ArgAt(args, 2)
        type == IF IsValidVirtualWallType(a2) THEN a2 ELSE Str("vw")
    IN
    CASE case = "GetMapImage" ->
            IF ~CanToString(a0) THEN Thrown
            ELSE LET mapID == Str(ArgToString(a0))
                     mapType == IF Truthy(a1) THEN a1 ELSE Str("outline")
                 IN IF IsPositive(ToNumberValue(mapID))
                    THEN Outcome(<<Request("GetMapImage", <<mapID, mapType>>)>>)
                    ELSE Outcome(<<>>)
      [] case = "GetMaps" ->
            IF device.deviceClass \in {"p5nx9u", "vthpeg"}
            THEN Outcome(<<Request("GetMapInfo_V2", <<>>)>>)
            ELSE Outcome(<<Request("GetMaps", <<>>)>>)
      [] case = "GetSpotAreas" ->
            IF IsPositive(ToNumberValue(a0))
            THEN Outcome(<<Request("GetMapSpotAreas", <<a0>>)>>)
            ELSE Outcome(<<>>)
      [] case = "GetSpotAreaInfo" ->
            IF IsPositive(ToNumberValue(a0)) /\ NotEmptyString(a1)
            THEN Outcome(<<Request("GetMapSpotAreaInfo", <<a0, a1>>)>>)
            ELSE Outcome(<<>>)
      [] case = "GetVirtualBoundaries" ->
            IF IsPositive(ToNumberValue(a0))
            THEN Outcome(<<Request("GetMapVirtualBoundaries", <<a0, Str("vw")>>),
                           Request("GetMapVirtualBoundaries", <<a0, Str("mw")>>)>>)
            ELSE Outcome(<<>>)
      [] case = "GetVirtualBoundaryInfo" ->
            IF IsPositive(ToNumberValue(a0)) /\ NotEmptyString(a1)
            THEN Outcome(<<Request("GetMapVirtualBoundaryInfo", <<a0, a1, type>>)>>)
            ELSE Outcome(<<>>)
      [] case = "AddVirtualBoundary" ->
            IF IsPositive(ToNumberValue(a0)) /\ NotEmptyString(a1)
            THEN Outcome(<<Request("AddMapVirtualBoundary", <<a0, a1, type>>)>>)
            ELSE Outcome(<<>>)
      [] case = "DeleteVirtualBoundary" ->
            IF /\ IsPositive(ToNumberValue(a0))
               /\ IsNonNegative(ToNumberValue(a1))
               /\ IsValidVirtualWallType(a2)
            THEN Outcome(<<Request("DeleteMapVirtualBoundary", <<a0, a1, a2>>)>>)
            ELSE Outcome(<<>>)
      [] case = "GetLifeSpan" ->
            IF Len(args) = 0
            THEN Outcome(<<Request("GetLifeSpan", <<ComponentsArray(device)>>)>>)
            ELSE Outcome(<<Request("GetLifeSpan", << <<ComponentToEcovacs(a0)>> >>)>>)
      [] case = "EnableDoNotDisturb" ->
            IF NotEmptyString(a0) /\ NotEmptyString(a1)
            THEN Outcome(<<Request("EnableDoNotDisturb", <<a0, a1>>)>>)
            ELSE Outcome(<<Request("EnableDoNotDisturb", <<>>)>>)
      [] case = "SetDoNotDisturb" ->
            LET enable == Num(IF Truthy(a0) THEN 1 ELSE 0)
            IN IF NotEmptyString(a1) /\ NotEmptyString(a2)
               THEN Outcome(<<Request("SetDoNotDisturb", <<enable, a1, a2>>)>>)
               ELSE IF Len(args) >= 1
               THEN Outcome(<<Request("SetDoNotDisturb", <<enable>>)>>)
               ELSE Outcome(<<>>)
      [] case = "GetCleanLogs" ->
            IF device.modelType = "T9"
            THEN [sent |-> <<>>, threw |-> FALSE, fetch |-> TRUE]
            ELSE Outcome(<<Request("GetCleanLogs", <<>>)>>)
      [] case = "Clean_V2" ->
            IF device.isAirPurifier
            THEN Outcome(<<Request("Clean_V2", <<Str("move")>>)>>)
            ELSE Outcome(<<Request("Clean_V2", <<>>)>>)
      [] case = "SpotArea_V2" ->
            IF ~CanToString(a0) THEN Thrown
            ELSE LET area == Str(ArgToString(a0))
                     cleanings == IF Truthy(a1) THEN a1 ELSE Num(0)
                 IN IF NotEmptyString(area)
                    THEN Outcome(<<Request("SpotArea_V2", <<area, cleanings>>)>>)
                    ELSE Outcome(<<>>)
      [] case = "CustomArea_V2" ->
            IF ~CanToString(a0) THEN Thrown
            ELSE LET area == Str(ArgToString(a0))
                     cleanings == IF Truthy(a1) THEN a1 ELSE Num(1)
                     donotClean == IF Truthy(a2) THEN a2 ELSE Num(0)
                 IN IF NotEmptyString(area)
                    THEN Outcome(<<Request("CustomArea_V2", <<area, cleanings, donotClean>>)>>)
                    ELSE Outcome(<<>>)
      [] case = "MapPoint_V2" ->
            IF ~CanToString(a0) THEN Thrown
            ELSE LET area == Str(ArgToString(a0))
                 IN IF NotEmptyString(area)
                    THEN Outcome(<<Request("MapPoint_V2", <<area>>)>>)
                    ELSE Outcome(<<>>)
      [] name \in DOMAIN SimpleLabels950 ->
            LET r == SimpleLabels950[name]
            IN IF Len(args) >= r.minArgs
               THEN Outcome(<<Request(r.class, Params(r.params, args))>>)
               ELSE Outcome(<<>>)
      [] OTHER -> Outcome(<<>>)

\* what run(command, ...args) hands to the transport: the requests of
\* super.run, then those of the switch
Requests950(command, args, device) ==
    LET Dispatch(name) ==
            LET Own(case) == Switch950(case, name, args, device)
            IN [Own(CaseOf(name)) EXCEPT !.sent = SuperRun(name, args) \o @]
    IN Dispatch(ToLowerCase(command))

\* run(command, ...args) of the 950-type session
Run950(command, args, device) ==
    \E case \in {CaseOf(ToLowerCase(command))} :
    \E out \in {Requests950(command, args, device)} :
    LET a0 == ArgAt(args, 0)
        a1 == ArgAt(args, 1)
        a2 == ArgAt(args, 2)
    IN
    /\ last' = [op |-> "run", session |-> "950", command |-> command, args |-> args,
                device |-> device, sent |-> out.sent, threw |-> out.threw, fetch |-> out.fetch]
    /\ IF case = "GetMapImage" /\ ~out.threw
       THEN /\ createMapDataObject' = Bool(TRUE)
            /\ createMapImage' = Bool(TRUE)
            /\ createMapImageOnly' = IF a2 # Undef THEN a2 ELSE Bool(TRUE)
       ELSE IF case = "GetMaps"
       THEN /\ createMapImageOnly' = Bool(FALSE)
            /\ createMapDataObject' = Bool(Truthy(a0))
            /\ createMapImage' = IF Len(args) >= 2 THEN Bool(Truthy(a1))
                                 ELSE Bool(Truthy(a0) /\ device.isMapImageSupported)
       ELSE UNCHANGED <<createMapDataObject, createMapImage, createMapImageOnly>>
    /\ IF case = "GetLifeSpan"
       THEN IF Len(args) = 0
            THEN /\ emitFullLifeSpanEvent' = TRUE
                 /\ components_950' = <<>>
                 /\ lastComponentValues' = <<>>
            ELSE /\ emitFullLifeSpanEvent' = FALSE
                 /\ UNCHANGED <<components_950, lastComponentValues>>
       ELSE UNCHANGED <<emitFullLifeSpanEvent, components_950, lastComponentValues>>
    /\ IF case = "GetVirtualBoundaries" /\ CanToString(a0)
       THEN RunGetVirtualBoundaries(ArgToString(a0))
       ELSE UNCHANGED <<mapVirtualBoundariesResponses, joinHist>>
    \* this.callCleanResultsLogsApi()
    /\ IF out.fetch
       THEN /\ cleanLogsFetches < MaxInFlight
            /\ cleanLogsFetches' = cleanLogsFetches + 1
       ELSE UNCHANGED cleanLogsFetches

----------------------------------------------------------------------------
(* VacBot_non950type.run *)

\* the cases of the legacy switch that send one command, when at least
\* minArgs arguments follow the action; the labels are lower-case literals
LegacyCases == {
    [label |-> <<"e", "d", "g", "e">>,
     class |-> "Edge", minArgs |-> 0, params |-> <<>>],
    [label |-> <<"s", "p", "o", "t">>,
     class |-> "Spot", minArgs |-> 0, params |-> <<>>],
    [label |-> <<"s", "p", "o", "t", "a", "r", "e", "a">>,
     class |-> "SpotArea", minArgs |-> 2, params |-> <<Arg(0), Arg(1)>>],
    [label |-> <<"c", "u", "s", "t", "o", "m", "a", "r", "e", "a">>,
     class |-> "CustomArea", minArgs |-> 3, params |-> <<Arg(0), Arg(1), Arg(2)>>],
    [label |-> <<"s", "t", "o", "p">>,
     class |-> "Stop", minArgs |-> 0, params |-> <<>>],
    [label |-> <<"p", "a", "u", "s", "e">>,
     class |-> "Pause", minArgs |-> 0, params |-> <<>>],
    [label |-> <<"r", "e", "s", "u", "m", "e">>,
     class |-> "Resume", minArgs |-> 0, params |-> <<>>],
    [label |-> <<"c", "h", "a", "r", "g", "e">>,
     class |-> "Charge", minArgs |-> 0, params |-> <<>>],
    [label |-> <<"p", "l", "a", "y", "s", "o", "u", "n", "d">>,
     class |-> "PlaySound", minArgs |-> 0, params |-> <<>>],
    [label |-> <<"g", "e", "t", "d", "e", "v", "i", "c", "e", "i", "n", "f", "o">>,
     class |-> "GetDeviceInfo", minArgs |-> 0, params |-> <<>>],
    [label |-> <<"d", "e", "v", "i", "c", "e", "i", "n", "f", "o">>,
     class |-> "GetDeviceInfo", minArgs |-> 0, params |-> <<>>],
    [label |-> <<"g", "e", "t", "c", "l", "e", "a", "n", "s", "t", "a", "t", "e">>,
     class |-> "GetCleanState", minArgs |-> 0, params |-> <<>>],
    [label |-> <<"c", "l", "e", "a", "n", "s", "t", "a", "t", "e">>,
     class |-> "GetCleanState", minArgs |-> 0, params |-> <<>>],
    [label |-> <<"g", "e", "t", "c", "l", "e", "a", "n", "s", "p", "e", "e", "d">>,
     class |-> "GetCleanSpeed", minArgs |-> 0, params |-> <<>>],
    [label |-> <<"c", "l", "e", "a", "n", "s", "p", "e", "e", "d">>,
     class |-> "GetCleanSpeed", minArgs |-> 0, params |-> <<>>],
    [label |-> <<"g", "e", "t", "c", "h", "a", "r", "g", "e", "s", "t", "a", "t", "e">>,
     class |-> "GetChargeState", minArgs |-> 0, params |-> <<>>],
    [label |-> <<"c", "h", "a", "r", "g", "e", "s", "t", "a", "t", "e">>,
     class |-> "GetChargeState", minArgs |-> 0, params |-> <<>>],
    [label |-> <<"g", "e", "t", "b", "a", "t", "t", "e", "r", "y", "s", "t", "a", "t", "e">>,
     class |-> "GetBatteryState", minArgs |-> 0, params |-> <<>>],
    [label |-> <<"b", "a", "t", "t", "e", "r", "y", "s", "t", "a", "t", "e">>,
     class |-> "GetBatteryState", minArgs |-> 0, params |-> <<>>],
    [label |-> <<"g", "e", "t", "l", "i", "f", "e", "s", "p", "a", "n">>,
     class |-> "GetLifeSpan", minArgs |-> 1, params |-> <<Arg(0)>>],
    [label |-> <<"l", "i", "f", "e", "s", "p", "a", "n">>,
     class |-> "GetLifeSpan", minArgs |-> 1, params |-> <<Arg(0)>>],
    [label |-> <<"g", "e", "t", "w", "a", "t", "e", "r", "l", "e", "v", "e", "l">>,
     class |-> "GetWaterLevel", minArgs |-> 0, params |-> <<>>],
    [label |-> <<"s", "e", "t", "w", "a", "t", "e", "r", "l", "e", "v", "e", "l">>,
     class |-> "SetWaterLevel", minArgs |-> 1, params |-> <<Arg(0)>>],
    [label |-> <<"g", "e", "t", "w", "a", "t", "e", "r", "b", "o", "x", "i", "n", "f", "o">>,
     class |-> "GetWaterBoxInfo", minArgs |-> 0, params |-> <<>>]}

\* the case of a label
LegacyCommands == [l \in {r.label : r \in LegacyCases} |-> CHOOSE r \in LegacyCases : r.label = l]

LegacyClean == <<"c", "l", "e", "a", "n">>

\* what the legacy run(action, ...) hands to send_command
RequestsLegacy(action, args) ==
    LET name == ToLowerCase(action)
    IN CASE name = LegacyClean ->
               IF Len(args) = 0 THEN <<Request("Clean", <<>>)>>
               ELSE IF Len(args) = 1 THEN <<Request("Clean", <<ArgAt(args, 0)>>)>>
               ELSE <<Request("Clean", <<ArgAt(args, 0), ArgAt(args, 1)>>)>>
         [] name \in DOMAIN LegacyCommands ->
               LET r == LegacyCommands[name]
               IN IF Len(args) < r.minArgs THEN <<>>
                  ELSE <<Request(r.class, Params(r.params, args))>>
         [] OTHER -> <<>>

\* run(action, ...) of the legacy session; send_command passes every request
\* to the transport
RunLegacy(action, args) ==
    last' = [op |-> "run", session |-> "legacy", command |-> action, args |-> args,
             device |-> DefaultDevice, sent |-> RequestsLegacy(action, args),
             threw |-> FALSE, fetch |-> FALSE]

----------------------------------------------------------------------------
(* The calls of run *)

\* n arguments
ArgsOfLen(n) == [i \in 1..n |-> Str("1")]

\* names no switch knows
UnknownNames == {<<"f", "o", "o">>, <<"G", "e", "t", "M", "a", "p">>, <<>>}

\* as written and upper case
TwoSpellings(name) == {name, [i \in 1..Len(name) |-> ToUpperChar(name[i])]}

\* argument lists of the cases with a body of their own
SpecialArgs(c) ==
    CASE c = CmdGetMapImage ->
            {<<>>, <<Str("1")>>, <<Str("0")>>, <<Num(1), Str("outline"), Bool(FALSE)>>}
      [] c = CmdGetMaps -> {<<>>, <<Bool(TRUE)>>}
      [] c \in {CmdGetSpotAreas, CmdGetVirtualBoundaries} -> {<<>>, <<Str("1")>>, <<Str("0")>>}
      [] c \in {CmdGetSpotAreaInfo, CmdGetVirtualBoundaryInfo, CmdAddVirtualBoundary} ->
            {<<>>, <<Str("1")>>, <<Str("1"), Str("")>>, <<Str("1"), Str("2"), Str("mw")>>}
      [] c = CmdDeleteVirtualBoundary ->
            {<<>>, <<Str("1"), Str("2")>>, <<Str("1"), Str("2"), Str("mw")>>}
      [] c = CmdGetLifeSpan -> {<<>>, <<Str("main_brush")>>}
      [] c = CmdEnableDoNotDisturb -> {<<>>, <<Str(""), Str("")>>, <<Str("1"), Str("2")>>}
      [] c = CmdSetDoNotDisturb ->
            {<<>>, <<Num(1)>>, <<Num(1), Str(""), Str("")>>, <<Num(1), Str("1"), Str("2")>>}
      [] c \in {CmdGetCleanLogs, CmdClean_V2} -> {<<>>}
      [] c \in {CmdSpotArea_V2, CmdCustomArea_V2, CmdMapPoint_V2} ->
            {<<>>, <<Str("")>>, <<Str("1")>>, <<Str("1"), Num(2)>>}

\* the commands whose requests depend on the device (GetCleanLogs, whose
\* fetch stays in flight, is run on every device in NextGetCleanLogs)
DeviceCommands == {CmdGetMaps, CmdGetLifeSpan, CmdClean_V2}

\* the calls run(command, ...args) of the 950-type session
RunCalls950 ==
    {<<s, <<>>, DefaultDevice>> : s \in UnknownNames}
        \cup UNION {TwoSpellings(r.label) \X {ArgsOfLen(r.minArgs)} \X {DefaultDevice} :
                        r \in SimpleCommands950}
        \cup UNION {{r.label} \X {ArgsOfLen(r.minArgs - 1)} \X {DefaultDevice} :
                        r \in {q \in SimpleCommands950 : q.minArgs > 0}}
        \cup UNION {TwoSpellings(r.label) \X {<<>>} \X {DefaultDevice} : r \in BaseCommands}
        \cup UNION {{c} \X SpecialArgs(c) \X {DefaultDevice} : c \in SpecialCommands950}
        \cup UNION {Spellings(c) \X {ArgsOfLen(1)} \X {DefaultDevice} : c \in SpecialCommands950}
        \cup UNION {{c} \X {<<>>} \X DeviceSamples : c \in DeviceCommands}

\* the legacy names as a caller writes them
LegacyNames ==
    {<<"C", "l", "e", "a", "n">>, <<"S", "p", "o", "t", "A", "r", "e", "a">>,
     <<"C", "u", "s", "t", "o", "m", "A", "r", "e", "a">>,
     <<"G", "e", "t", "L", "i", "f", "e", "S", "p", "a", "n">>,
     <<"S", "e", "t", "W", "a", "t", "e", "r", "L", "e", "v", "e", "l">>}
        \cup {r.label : r \in LegacyCases}

\* the calls run(action, ...) of the legacy session
RunCallsLegacy ==
    (UnknownNames \X {<<>>})
        \cup UNION {TwoSpellings(n) \X {ArgsOfLen(3)} : n \in LegacyNames}
        \cup (LegacyNames \X {<<>>, ArgsOfLen(1)})

----------------------------------------------------------------------------
(* handleCleanInfo, handleChargeState *)

\* obj[key], undefined when the key is missing
Get(obj, key) == IF Has(obj, key) THEN obj[key] ELSE Undefined

\* dictionary.CLEAN_MODE_FROM_ECOVACS
CleanModeFromEcovacs(v) ==
    CASE v = "auto" -> "auto"
      [] v = "spotArea" -> "spot_area"
      [] v = "customArea" -> "custom_area"
      [] v = "pause" -> "pause"
      [] v = "idle" -> "idle"
      [] v = "goCharging" -> "returning"
      [] OTHER -> Undefined

\* the content of a clean state: missing, a string, or an object
NoContent == <<"undefined", 0>>
Obj(o) == <<"obj", o>>

\* typeof content === 'object'
IsObject(content) == content[1] = "obj"

\* the number of parts of a comma-separated value
SplitLength(v) == CASE v = "1,2" -> 2 [] v = "1,2,3,4" -> 4 [] OTHER -> 1

CleanStates ==
    {Merge(Merge([motionState |-> m], t), [content |-> c]) :
        <<m, t, c>> \in {"working", "pause"}
                         \X Optional("type", {"auto", "spotArea", "customArea"})
                         \X {NoContent, Str("1,2"), Str("1,2,3,4"),
                             Obj([type |-> "spotArea", value |-> "1,2"]),
                             Obj([type |-> "customArea", value |-> "1,2,3,4"]),
                             Obj([type |-> "customArea", value |-> "1,2"]),
                             Obj([type |-> "customArea", value |-> "1,2,3,4", donotClean |-> 1]),
                             Obj([type |-> "customArea"])}}

\* the payloads of the CleanInfo message
CleanInfoPayloads ==
    {Merge(st, tr) : <<st, tr>> \in Optional("state", {"idle", "goCharging", "pause", "zz", "clean"})
                                        \X Optional("trigger", {"alert", "app"})}
        \cup {[state |-> "clean", cleanState |-> cs] : cs \in CleanStates}

\* the type of the content, whatever the content is
CleanTypeOfState(cleanState) == Get(cleanState, "type")

\* the clean type: of the content when it is an object, else of the clean state
CleanType(cleanState) ==
    IF IsObject(cleanState.content) THEN Get(cleanState.content[2], "type")
    ELSE Get(cleanState, "type")

\* the area values: of the content when it is an object, else the content
AreaValues(content) ==
    IF IsObject(content) THEN Get(content[2], "value")
    ELSE IF content[1] = "str" THEN content[2] ELSE Undefined

\* no state is the one of returning to the dock
IsReturningNever(mode) == FALSE

\* the decoded state is the one of returning to the dock
IsReturning(mode) == mode = "returning"

\* the values go to currentSpotAreas for either area type
IsSpotAreaTypeOrCustom(type) == type \in {"spotArea", "customArea"}

\* the branch that sets currentSpotAreas
IsSpotAreaType(type) == type = "spotArea"

\* what handleCleanInfo leaves behind for a payload with state 'clean'; a
\* missing cleanState and a split of a missing value throw a TypeError after
\* the assignments made so far
CleanStateResult(payload, report) ==
    IF ~Has(payload, "cleanState")
    THEN [spotAreas |-> "", customAreaValues |-> "", cleanReport |-> report, threw |-> TRUE]
    ELSE LET cleanState == payload.cleanState
             content == cleanState.content
             type == CleanType(cleanState)
             areaValues == AreaValues(content)
             report1 == IF cleanState.motionState = "working" THEN CleanModeFromEcovacs(type)
                        ELSE CleanModeFromEcovacs(cleanState.motionState)
             \* doNotClean === 1
             doNotClean == /\ IsObject(content)
                           /\ Has(content[2], "donotClean")
                           /\ content[2].donotClean = 1
             splitThrows == /\ type = "customArea" /\ IsObject(content)
                            /\ ~doNotClean /\ areaValues = Undefined
             setLocation == /\ type = "customArea" /\ IsObject(content)
                            /\ (doNotClean \/ SplitLength(areaValues) = 2)
         IN IF splitThrows
            THEN [spotAreas |-> "", customAreaValues |-> "", cleanReport |-> report1, threw |-> TRUE]
            ELSE [spotAreas |-> IF IsSpotAreaType(type) THEN areaValues ELSE "",
                  customAreaValues |-> IF type = "customArea" THEN areaValues ELSE "",
                  cleanReport |-> IF setLocation THEN "setLocation" ELSE report1,
                  threw |-> FALSE]

CmdGetChargeState == <<"G", "e", "t", "C", "h", "a", "r", "g", "e", "S", "t", "a", "t", "e">>

HandleCleanInfo(payload) ==
    IF Get(payload, "state") = "clean"
    THEN \E r \in {CleanStateResult(payload, cleanReport)} :
            /\ currentSpotAreas' = r.spotAreas
            /\ currentCustomAreaValues' = r.customAreaValues
            /\ cleanReport' = r.cleanReport
            /\ last' = [op |-> "handleCleanInfo", payload |-> payload, sent |-> <<>>,
                        threw |-> r.threw, pre |-> chargeStatus]
            /\ UNCHANGED <<chargeStatus, chargeMode>>
    ELSE /\ currentSpotAreas' = ""
         /\ currentCustomAreaValues' = ""
         /\ UNCHANGED chargeMode
         /\ IF Get(payload, "trigger") = "alert"
            THEN /\ cleanReport' = "alert"
                 /\ last' = [op |-> "handleCleanInfo", payload |-> payload, sent |-> <<>>,
                             threw |-> FALSE, pre |-> chargeStatus]
                 /\ UNCHANGED chargeStatus
            ELSE LET mode == CleanModeFromEcovacs(Get(payload, "state"))
                 IN /\ cleanReport' = mode
                    /\ chargeStatus' = IF IsReturning(mode) THEN mode ELSE chargeStatus
                    /\ last' = [op |-> "handleCleanInfo", payload |-> payload,
                                \* this.run('GetChargeState')
                                sent |-> IF ~IsReturning(mode) /\ mode = "idle"
                                         THEN Requests950(CmdGetChargeState, <<>>, DefaultDevice).sent
                                         ELSE <<>>,
                                threw |-> FALSE, pre |-> chargeStatus]

\* the payloads of the ChargeState message
ChargeStatePayloads ==
    {Merge(c, m) : <<c, m>> \in Optional("isCharging", {0, 1}) \X Optional("mode", {"slot", "wire"})}

\* any isCharging value counts as charging
IsChargingWhenPresent(payload) == Has(payload, "isCharging")

\* parseInt(payload['isCharging']) === 1
IsCharging(payload) == Has(payload, "isCharging") /\ payload.isCharging = 1

HandleChargeState(payload) ==
    /\ chargeStatus' = IF IsCharging(payload) THEN "charging" ELSE "idle"
    /\ chargeMode' = IF Has(payload, "mode") THEN payload.mode ELSE "slot"
    /\ last' = [op |-> "handleChargeState", payload |-> payload, pre |-> chargeStatus]
    /\ UNCHANGED <<currentSpotAreas, currentCustomAreaValues, cleanReport>>

\* the payloads of the Battery message
BatteryPayloads ==
    {Merge([value |-> v], l) : <<v, l>> \in {0, 14, 15, 16, 100} \X Optional("isLow", {0, 1})}

\* handleBattery: the level, and the low flag from isLow when the payload has
\* it, else from the level
HandleBattery(payload) ==
    /\ batteryLevel' = Num(payload.value)
    /\ batteryIsLow' = IF Has(payload, "isLow")
                       THEN \* !!Number(payload['isLow'])
                            payload.isLow # 0
                       ELSE \* this.batteryLevel >= 15
                            payload.value >= 15
    /\ last' = [op |-> "handleBattery", payload |-> payload]

----------------------------------------------------------------------------
(* run('GetCleanLogs') on the T9 family: the callback of the resolved fetch *)

Event(name, value) == [name |-> name, value |-> value]

\* the events go out last one first
CleanLogEventsLastFirst(st) ==
    <<Event("LastCleanLogs", <<st.lastTimestamp, st.lastSquareMeters, st.lastTotalTime,
                               st.lastTotalTimeString, st.lastImageUrl>>),
      Event("CleanLog_lastTotalTimeString", st.lastTotalTimeString),
      Event("CleanLog_lastSquareMeters", st.lastSquareMeters),
      Event("CleanLog_lastTimestamp", st.lastTimestamp),
      Event("CleanLog_lastImageTimestamp", st.lastTimestamp),
      Event("CleanLog_lastImageUrl", st.lastImageUrl),
      Event("CleanLog", st.cleanLog)>>

\* the this.ecovacs.emit calls of the callback, from the session's fields
CleanLogEvents(st) ==
    <<Event("CleanLog", st.cleanLog),
      Event("CleanLog_lastImageUrl", st.lastImageUrl),
      Event("CleanLog_lastImageTimestamp", st.lastTimestamp),
      Event("CleanLog_lastTimestamp", st.lastTimestamp),
      Event("CleanLog_lastSquareMeters", st.lastSquareMeters),
      Event("CleanLog_lastTotalTimeString", st.lastTotalTimeString),
      Event("LastCleanLogs", <<st.lastTimestamp, st.lastSquareMeters, st.lastTotalTime,
                               st.lastTotalTimeString, st.lastImageUrl>>)>>

\* callCleanResultsLogsApi().then((logData) => { this.handleCleanLogs(logData); ... })
CleanLogsFetched(logData) ==
    /\ cleanLogsFetches > 0
    /\ cleanLogsFetches' = cleanLogsFetches - 1
    /\ HandleCleanLogs(logData)
    /\ emitted' = CleanLogEvents([cleanLog |-> cleanLog',
                                  lastImageUrl |-> cleanLog_lastImageUrl',
                                  lastTimestamp |-> cleanLog_lastTimestamp',
                                  lastSquareMeters |-> cleanLog_lastSquareMeters',
                                  lastTotalTime |-> cleanLog_lastTotalTime',
                                  lastTotalTimeString |-> cleanLog_lastTotalTimeString'])

----------------------------------------------------------------------------
(* VacBot_non950type: connect_and_wait_until_ready, the keep-alive tick,
   disconnect *)

\* this.ecovacs.connect_and_wait_until_ready(); this.ping_interval = setInterval(...)
Connect_and_wait_until_ready ==
    /\ intervals < MaxIntervals
    /\ ping_interval' = "interval"
    /\ intervals' = intervals + 1
    /\ disconnected' = FALSE
    /\ last' = [op |-> "connect_and_wait_until_ready", sent |-> <<>>]

\* the callback of a running interval: this.ecovacs.send_ping(this._vacuum_address())
PingTick ==
    /\ intervals > 0
    /\ last' = [op |-> "ping", sent |-> <<"send_ping">>]
    /\ UNCHANGED connVars

\* this.ecovacs.disconnect()
Disconnect ==
    /\ disconnected' = TRUE
    /\ last' = [op |-> "disconnect", sent |-> <<>>]
    /\ UNCHANGED <<ping_interval, intervals>>

----------------------------------------------------------------------------
(* VacBot_non950type: _handle_clean_report, the 'ready' handler *)

\* dictionary.CLEAN_MODE_FROM_ECOVACS of the legacy models
LegacyCleanModes == {"auto", "border", "spot", "stop", "going"}

LegacyCleanModeFromEcovacs(type) ==
    CASE type = "auto" -> "auto"
      [] type = "border" -> "edge"
      [] type = "spot" -> "spot"
      [] type = "stop" -> "stop"
      [] type = "going" -> "returning"

\* dictionary.CLEAN_ACTION_FROM_ECOVACS
LegacyCleanActions == {"s", "p", "r", "h"}

CleanActionFromEcovacs(action) ==
    CASE action = "s" -> "start"
      [] action = "p" -> "pause"
      [] action = "r" -> "resume"
      [] action = "h" -> "stop"
      [] OTHER -> Undefined

\* dictionary.FAN_SPEED_FROM_ECOVACS
LegacyFanSpeeds == {"standard", "strong"}

FanSpeedFromEcovacs(speed) == IF speed = "standard" THEN "normal" ELSE "high"

\* the attrs of the clean reports
CleanReportAttrs ==
    {Merge(Merge(t, s), Merge(a, f)) :
        <<t, s, a, f>> \in Optional("type", {"auto", "border", "zz"})
                             \X Optional("st", {"s", "p", "h", "zz"})
                             \X Optional("act", {"s", "p"})
                             \X Optional("speed", {"standard", "strong", "zz"})}

CleanReportEvents == {<<>>} \cup {[attrs |-> a] : a \in CleanReportAttrs}

\* the action is read from act before st
StatusTypeActFirst(attrs) ==
    IF Has(attrs, "act") THEN CleanActionFromEcovacs(attrs.act)
    ELSE IF Has(attrs, "st") THEN CleanActionFromEcovacs(attrs.st)
    ELSE "null"

\* statustype: the decoded st, else the decoded act, else null
StatusType(attrs) ==
    IF Has(attrs, "st") THEN CleanActionFromEcovacs(attrs.st)
    ELSE IF Has(attrs, "act") THEN CleanActionFromEcovacs(attrs.act)
    ELSE "null"

Handle_clean_report(event) ==
    /\ last' = [op |-> "_handle_clean_report", event |-> event]
    /\ IF ~Has(event, "attrs")
       THEN /\ vacuum_status' = "unknown"
            /\ clean_status' = "unknown"
            /\ UNCHANGED fan_speed
       ELSE LET attrs == event.attrs
                raw == Get(attrs, "type")
                decoded == IF raw \in LegacyCleanModes THEN LegacyCleanModeFromEcovacs(raw)
                           ELSE raw
                statustype == StatusType(attrs)
                type == IF statustype \in {"stop", "pause"} THEN statustype ELSE decoded
            IN /\ vacuum_status' = type
               /\ clean_status' = type
               /\ fan_speed' = IF Has(attrs, "speed") /\ attrs.speed \in LegacyFanSpeeds
                               THEN FanSpeedFromEcovacs(attrs.speed)
                               ELSE fan_speed

CmdGetBatteryState ==
    <<"G", "e", "t", "B", "a", "t", "t", "e", "r", "y", "S", "t", "a", "t", "e">>
CmdGetCleanState == <<"G", "e", "t", "C", "l", "e", "a", "n", "S", "t", "a", "t", "e">>
CmdGetWaterLevel == <<"G", "e", "t", "W", "a", "t", "e", "r", "L", "e", "v", "e", "l">>

\* the calls are made whatever the model's capabilities
ReadyCallsAllModels(mainBrush, moppingSystem) ==
    <<<<CmdGetBatteryState, <<>>>>, <<CmdGetCleanState, <<>>>>, <<CmdGetChargeState, <<>>>>,
      <<CmdGetLifeSpan, <<Str("main_brush")>>>>, <<CmdGetLifeSpan, <<Str("side_brush")>>>>,
      <<CmdGetLifeSpan, <<Str("filter")>>>>, <<CmdGetWaterLevel, <<>>>>>>

\* the calls of run the 'ready' handler makes, in order
ReadyCalls(mainBrush, moppingSystem) ==
    <<<<CmdGetBatteryState, <<>>>>, <<CmdGetCleanState, <<>>>>, <<CmdGetChargeState, <<>>>>>>
        \o (IF mainBrush THEN <<<<CmdGetLifeSpan, <<Str("main_brush")>>>>>> ELSE <<>>)
        \o <<<<CmdGetLifeSpan, <<Str("side_brush")>>>>, <<CmdGetLifeSpan, <<Str("filter")>>>>>>
        \o (IF moppingSystem THEN <<<<CmdGetWaterLevel, <<>>>>>> ELSE <<>>)

\* what the calls hand to send_command, one after the other
RECURSIVE SentBy(_, _)
SentBy(calls, i) ==
    IF i > Len(calls) THEN <<>>
    ELSE RequestsLegacy(calls[i][1], calls[i][2]) \o SentBy(calls, i + 1)

\* the handler of the transport's 'ready' event; hasMainBrush() and
\* hasMoppingSystem() are properties of the model
Ready(mainBrush, moppingSystem) ==
    last' = [op |-> "ready", hasMainBrush |-> mainBrush, hasMoppingSystem |-> moppingSystem,
             sent |-> SentBy(ReadyCalls(mainBrush, moppingSystem), 1)]

----------------------------------------------------------------------------
(* handleMapInfo *)

ImageTypes == {"ol", "wi"}
PieceIndices == {"0", "1"}

\* the payloads of the MapInfo message: pieces of the outline of map 1, one
\* of them without data, one announcing another piece count; a piece of
\* another image type, of another map, one without map ID and one whose map
\* ID is the empty string
MapInfoPiece(mid, type, index, crc, totalCount, pieceValue) ==
    [mid |-> mid, type |-> type, index |-> index, crc |-> crc, totalCount |-> totalCount,
     pieceValue |-> pieceValue, value |-> "x"]

MapInfoPayloads ==
    {MapInfoPiece("1", "ol", i, c, 2, "x") : <<i, c>> \in PieceIndices \X {"a", "b"}}
        \cup {MapInfoPiece("1", "ol", "0", "a", 2, ""),
              MapInfoPiece("1", "ol", "0", "a", 3, "x"),
              MapInfoPiece("1", "wi", "0", "a", 2, "x"),
              MapInfoPiece("2", "ol", "0", "a", 2, "x"),
              MapInfoPiece(Undefined, "ol", "0", "a", 2, "x"),
              MapInfoPiece("", "ol", "0", "a", 2, "x")}

\* new map.EcovacsMapImage(mapMID, type, ..., totalCount): no piece yet
EcovacsMapImage(mapMID, type, totalCount) ==
    [mapID |-> mapMID, type |-> type, totalCount |-> totalCount, pieces |-> <<>>]

\* EcovacsMapImage.updateMapPiece: a piece whose checksum is the stored one
\* changes nothing, any other is stored under its index
UpdateMapPiece(image, index, crc) ==
    IF Has(image.pieces, index) /\ image.pieces[index] = crc THEN image
    ELSE [image EXCEPT !.pieces = Put(@, index, crc)]

\* all expected pieces are present
IsComplete(image) == Cardinality(DOMAIN image.pieces) = image.totalCount

\* typeof this.mapImages[mapMID][type] === 'undefined'
ImageMissing(images, mapMID, type) == ~Has(images, mapMID) \/ ~Has(images[mapMID], type)

\* the payload's piece goes with one and the same checksum
PieceOfOneChecksum(payload) == [index |-> payload.index, crc |-> "a"]

\* the index and checksum handed to updateMapPiece
PieceOf(payload) == [index |-> payload.index, crc |-> payload.crc]

\* this.mapImages with the image of the payload's key in place
WithImage(images, payload) ==
    LET mapMID == payload.mid
        type == payload.type
        ofMap == IF Has(images, mapMID) THEN images[mapMID] ELSE <<>>
    IN IF ImageMissing(images, mapMID, type)
       THEN Put(images, mapMID,
                Put(ofMap, type, EcovacsMapImage(mapMID, type, payload.totalCount)))
       ELSE images

\* handleMapInfo up to its first await: the image is looked up or created;
\* a payload with data then awaits updateMapPiece, one without goes on to the
\* rendering
HandleMapInfo(payload) ==
    IF IsNaN(payload.mid)
    THEN /\ last' = [op |-> "handleMapInfo", payload |-> payload, returned |-> "null"]
         /\ UNCHANGED imgVars
    ELSE /\ mapImages' = WithImage(mapImages, payload)
         /\ IF payload.pieceValue # ""
            THEN /\ Len(mapInfoPending) < MaxInFlight
                 /\ mapInfoPending' = Append(mapInfoPending, payload)
                 /\ last' = [op |-> "handleMapInfo", payload |-> payload, returned |-> "pending"]
            ELSE /\ UNCHANGED mapInfoPending
                 /\ last' = [op |-> "handleMapInfo", payload |-> payload, returned |-> "image"]

\* the awaited updateMapPiece of the i-th pending call resolves: the piece is
\* in the image of the call's key, and the call goes on to the rendering
MapPieceUpdated(i) ==
    LET payload == mapInfoPending[i]
        image == mapImages[payload.mid][payload.type]
        piece == PieceOf(payload)
    IN /\ mapImages' = [mapImages EXCEPT ![payload.mid][payload.type] =
                            UpdateMapPiece(image, piece.index, piece.crc)]
       /\ mapInfoPending' = Without(mapInfoPending, i)
       /\ last' = [op |-> "updateMapPiece", payload |-> payload, before |-> image]

----------------------------------------------------------------------------
(* handleMajorMap, handleMinorMap *)

\* the `mid` of a live-map payload: a map ID, missing, or the empty string
LiveMapMids == MapIds \cup {Undefined, ""}

\* the payloads of the MajorMap message: the geometry and the checksums of
\* the pieces; map 1 comes with two geometries and checksums
MajorMap(mid, pieceWidth, value) ==
    [mid |-> mid, type |-> "ol", pieceWidth |-> pieceWidth, value |-> value]

MajorMapPayloads ==
    {MajorMap(mid, 1, "a") : mid \in LiveMapMids} \cup {MajorMap("1", 2, "b")}

\* the payloads of the MinorMap message: one piece; map 1 comes with two
\* pieces, one of them with two values
MinorMap(mid, pieceIndex, pieceValue) ==
    [mid |-> mid, pieceIndex |-> pieceIndex, pieceValue |-> pieceValue]

MinorMapPayloads ==
    {MinorMap(mid, "0", "p") : mid \in LiveMapMids}
        \cup {MinorMap("1", "0", "q"), MinorMap("1", "1", "p")}

\* new map.EcovacsLiveMapImage(mapMID, type, pieceWidth, ..., value): the
\* geometry, the checksums of the pieces, no piece yet
EcovacsLiveMapImage(mapMID, type, pieceWidth, value) ==
    [mapID |-> mapMID, type |-> type, pieceWidth |-> pieceWidth, crc |-> value, pieces |-> <<>>]

\* EcovacsLiveMapImage.updateMapDataPiecesCrc: only the checksums change
UpdateMapDataPiecesCrc(image, value) == [image EXCEPT !.crc = value]

\* EcovacsLiveMapImage.updateMapPiece: the piece is stored under its index
UpdateLiveMapPiece(image, pieceIndex, pieceValue) ==
    [image EXCEPT !.pieces = Put(@, pieceIndex, pieceValue)]

\* EcovacsLiveMapImage.getBase64PNG: a rendering of the image
LiveBase64PNG(image) == [mapID |-> image.mapID, mapType |-> image.type, pieces |-> image.pieces]

\* only a missing image is another one
OtherLiveImageIfNone(image, mapMID) == image = <<>>

\* !this.liveMapImage || (this.liveMapImage.mapID !== mapMID)
OtherLiveImage(image, mapMID) == image = <<>> \/ image.mapID # mapMID

\* a new image takes the place of the live image: the calls awaiting a patch
\* of the former image hold an object the session no longer refers to
Orphaned(pending) == [k \in DOMAIN pending |-> [pending[k] EXCEPT !.orphan = TRUE]]

HandleMajorMap(payload) ==
    LET mapMID == payload.mid IN
    /\ last' = [op |-> "handleMajorMap", payload |-> payload]
    /\ IF IsNaN(mapMID) THEN UNCHANGED liveVars
       ELSE IF OtherLiveImage(liveMapImage, mapMID)
       THEN /\ liveMapImage' = EcovacsLiveMapImage(mapMID, payload.type, payload.pieceWidth,
                                                   payload.value)
            /\ minorMapPending' = Orphaned(minorMapPending)
       ELSE /\ liveMapImage' = UpdateMapDataPiecesCrc(liveMapImage, payload.value)
            /\ UNCHANGED minorMapPending

\* handleMinorMap up to its await: null without a live image of the payload's
\* map, else updateMapPiece of the live image is called and awaited
HandleMinorMap(payload) ==
    LET mapMID == payload.mid IN
    IF IsNaN(mapMID) \/ OtherLiveImage(liveMapImage, mapMID)
    THEN /\ last' = [op |-> "handleMinorMap", payload |-> payload, returned |-> "null",
                     threw |-> FALSE]
         /\ UNCHANGED liveVars
    ELSE /\ Len(minorMapPending) < MaxInFlight
         /\ minorMapPending' = Append(minorMapPending, [payload |-> payload, orphan |-> FALSE])
         /\ last' = [op |-> "handleMinorMap", payload |-> payload, returned |-> "pending",
                     threw |-> FALSE]
         /\ UNCHANGED liveMapImage

\* the awaited updateMapPiece of the i-th pending call resolves: the piece is
\* in the image the call held, and the call returns the rendering of
\* this.liveMapImage as it is now
MinorMapPatched(i) ==
    LET call == minorMapPending[i]
        patched == UpdateLiveMapPiece(liveMapImage, call.payload.pieceIndex,
                                      call.payload.pieceValue)
    IN /\ liveMapImage' = IF call.orphan THEN liveMapImage ELSE patched
       /\ minorMapPending' = Without(minorMapPending, i)
       /\ last' = [op |-> "updateLiveMapPiece", payload |-> call.payload,
                   orphan |-> call.orphan, returned |-> LiveBase64PNG(liveMapImage')]

----------------------------------------------------------------------------
(* Claims about the virtual-boundary join *)

\* the last call was handleMapSet with a boundary payload for a known map
BoundaryCall ==
    /\ last.op = "handleMapSet"
    /\ last.type \in BoundaryTypes
    /\ last.mapMID \in MapIds

\* C1: while only one of the two boundary types has been handled for a map
\* since its join flags were initialised or reset, every handleMapSet call for
\* that map returns 'skip' and no 'MapVirtualBoundaries' result was produced.
C1_IncompleteJoinSkips ==
    /\ (BoundaryCall /\ joinHist[last.mapMID].handled # BoundaryTypes)
           => (last.mapsetEvent = "skip" /\ last.mapsetData = <<>>)
    /\ \A m \in MapIds :
           joinHist[m].handled # BoundaryTypes => joinHist[m].emitted = 0

\* a repeated wall payload, no mop payload yet: still skipped
C1_Witness ==
    /\ BoundaryCall
    /\ last.type = "vw"
    /\ joinHist[last.mapMID].handled = {"vw"}
    /\ Len(joinHist[last.mapMID].delivered) >= 2
    /\ last.mapsetEvent = "skip"

\* C2 (as stated): once a 'vw' and a 'mw' payload of a map have been handled,
\* in either order and with any repeats, exactly one call has returned
\* 'MapVirtualBoundaries' for that map.
C2_ExactlyOneConsolidatedEvent ==
    \A m \in MapIds :
        joinHist[m].handled = BoundaryTypes => joinHist[m].emitted = 1

----------------------------------------------------------------------------
(* Claims about the clean logs *)

\* the first entry of a list that carries the given ID
FirstWithId(logs, id) ==
    logs[CHOOSE i \in DOMAIN logs :
            logs[i].id = id /\ \A j \in DOMAIN logs : logs[j].id = id => i <= j]

----------------------------------------------------------------------------
(* Claims about the positions *)

\* the payload's device position differs in value from the stored one
DeebotPosDiffers(deebotPos) ==
    \/ deebotPos.x # deebotPosition.x
    \/ deebotPos.y # deebotPosition.y
    \/ deebotPos.a # deebotPosition.a
    \/ (NumberOf(deebotPos.invalid) = 1) # (deebotPosition.isInvalid = Bool(TRUE))

\* C5: when handlePos receives two consecutive payloads with identical
\* deebotPos x, y, a and invalid, and the stored currentSpotAreaID is not
\* 'unknown', the second payload leaves deebotPosition as it is (no
\* replacement, no recomputation, changeFlag not set again).
C5_RepeatedPositionSuppressed ==
    [][\A p \in PosPayloads :
          (/\ HandlePos(p)
           /\ Has(p, "deebotPos")
           /\ last.op = "handlePos"
           /\ last.deebotPos = <<p.deebotPos>>
           /\ deebotPosition.currentSpotAreaID # "unknown")
          => (deebotPosition' = deebotPosition /\ ~last'.deebotReplaced)]_vars

\* C6: a deebotPos that differs from the stored position in x, y, a or invalid
\* replaces deebotPosition with the payload's values, sets changeFlag, and
\* recomputes currentSpotAreaID against the spot areas of the current map.
C6_ChangedPositionApplied ==
    [][\A p \in PosPayloads :
          (HandlePos(p) /\ Has(p, "deebotPos") /\ DeebotPosDiffers(p.deebotPos))
          => /\ deebotPosition'.x = p.deebotPos.x
             /\ deebotPosition'.y = p.deebotPos.y
             /\ deebotPosition'.a = p.deebotPos.a
             /\ deebotPosition'.isInvalid = Bool(NumberOf(p.deebotPos.invalid) = 1)
             /\ deebotPosition'.changeFlag = TRUE
             /\ deebotPosition'.currentSpotAreaID =
                    IsPositionInSpotArea(NumberOf(p.deebotPos.x), NumberOf(p.deebotPos.y),
                                         SpotAreaInfosOf(currentMapMID))]_vars

\* a position was applied that lies in spot area 1 of the current map 2 and
\* would lie in spot area 0 of map 1
C6_Witness ==
    /\ last.op = "handlePos"
    /\ last.deebotReplaced
    /\ currentMapMID = "2"
    /\ Has(SpotAreaInfosOf("1"), "0")
    /\ Has(SpotAreaInfosOf("2"), "1")
    /\ deebotPosition.x = Num(1) /\ deebotPosition.y = Num(1)
    /\ deebotPosition.currentSpotAreaID = "1"
    /\ deebotPosition.changeFlag

\* C7: handlePos replaces chargePosition (changeFlag true) exactly when the
\* first entry of chargePos differs from it in x, y or a; otherwise, and for
\* payloads without chargePos, chargePosition stays; later entries are ignored.
C7_ChargePositionFirstEntryOnly ==
    [][\A p \in ChargePosPayloads :
          HandlePos(p)
          => IF /\ Has(p, "chargePos")
                /\ <<p.chargePos[1].x, p.chargePos[1].y, p.chargePos[1].a>>
                       # <<chargePosition.x, chargePosition.y, chargePosition.a>>
             THEN chargePosition' = [x |-> p.chargePos[1].x, y |-> p.chargePos[1].y,
                                     a |-> p.chargePos[1].a, changeFlag |-> TRUE]
             ELSE chargePosition' = chargePosition]_vars

\* a payload whose first entry repeats the stored charger position and whose
\* second entry is another position: nothing was replaced
C7_Witness ==
    /\ last.op = "handlePos"
    /\ Len(last.chargePos) = 2
    /\ ~last.chargeReplaced
    /\ last.chargePos[1].x = chargePosition.x
    /\ last.chargePos[1].a = chargePosition.a
    /\ last.chargePos[2].a # chargePosition.a
    /\ ~chargePosition.changeFlag

----------------------------------------------------------------------------
(* Claims about the error state *)

\* the code of the last error payload, "" when it has none
LastErrorCode ==
    IF last.op = "handleResponseError" /\ Has(last.payload, "code") THEN CodeToString(last.payload.code)
    ELSE IF last.op = "_handle_error" /\ Has(last.payload, "errno") THEN last.payload.errno
    ELSE ""

\* C8: an error payload with code 100 or 0 leaves the error state unchanged,
\* in _handle_error (error_event) and in handleResponseError (errorCode,
\* errorDescription).
C8_NoErrorCodeLeavesErrorState ==
    LastErrorCode \in {"0", "100"} =>
        /\ last.op = "handleResponseError" => <<errorCode, errorDescription>> = last.pre
        /\ last.op = "_handle_error" => error_event = last.pre

\* C9: an error payload with a code that is not in the lookup table does not
\* throw and leaves an error state that carries the code with a non-empty
\* placeholder description, in both handlers.
C9_UnknownCodeGetsPlaceholder ==
    (LastErrorCode # "" /\ LastErrorCode \notin KnownErrorCodes) =>
        /\ ~last.threw
        /\ last.op = "handleResponseError" =>
               (errorCode = LastErrorCode /\ errorDescription = <<"unknown errorCode: ", LastErrorCode>>)
        /\ last.op = "_handle_error" =>
               (/\ error_event # NullText
                /\ \/ error_event[Len(error_event)] = LastErrorCode
                   \/ Has(last.payload, "error") /\ error_event = Text(last.payload.error)
                   \/ Has(last.payload, "errs") /\ error_event = Text(last.payload.errs))

----------------------------------------------------------------------------
(* Claims about the life span *)

\* the percentage the documented formula of the entry's shape gives
DocumentedLifeSpan(e) ==
    IF Has(e, "val") /\ Has(e, "total") THEN Ratio(e.val * 100, e.total)
    ELSE IF Has(e, "val") THEN Ratio(e.val, 100)
    ELSE IF Has(e, "left") /\ Has(e, "total") THEN Ratio(e.left * 100, e.total)
    ELSE Ratio(e.left, 60)

HasShape(e) == Has(e, "val") \/ Has(e, "left")

\* v is a number in [0, 100]
IsPercentage(v) == v[1] = "num" /\ v[2] <= 100 * v[3]

\* C10: for every life-span payload of shape {val,total}, {val}, {left,total}
\* or {left} with valid numerics and a known component type, the stored value
\* lies in [0,100] and is the formula of the shape rounded to 2 decimals, in
\* _handle_life_span and in handleLifespan.
C10_LifeSpanPercentage ==
    /\ (/\ last.op = "_handle_life_span"
        /\ Has(last.payload, "type") /\ last.payload.type \in ComponentTypes
        /\ HasShape(last.payload))
       => LET type == ComponentFromEcovacs(last.payload.type) IN
          /\ Has(components, type)
          /\ IsPercentage(components[type])
          /\ components[type] = ToFixed2(DocumentedLifeSpan(last.payload))
    /\ last.op = "handleLifespan"
       => LET e == last.payload[Len(last.payload)] IN
          (e.type \in ComponentTypes950 /\ HasShape(e))
          => LET type == ComponentFromEcovacs950(e.type) IN
             /\ Has(components_950, type)
             /\ IsPercentage(components_950[type])
             /\ components_950[type] = ToFixed2(DocumentedLifeSpan(e))

\* C11: _handle_life_span tries the shapes in the order {val,total}, {val},
\* {left,total}, {left} and uses only the first one whose fields are present:
\* fields of later shapes do not influence the stored value, and when no shape
\* matches the components map is left unchanged.
C11_ShapePriority ==
    [][\A e \in LifeSpanEvents :
          (/\ Handle_life_span(e)
           /\ Has(e, "type") /\ e.type \in ComponentTypes)
          => IF ~HasShape(e) THEN components' = components
             ELSE \/ components' = Put(components, ComponentFromEcovacs(e.type), DocumentedLifeSpan(e))
                  \/ IsZero(DocumentedLifeSpan(e)) /\ components' = components]_vars

\* an event with the fields of three shapes was handled and the value of
\* {val,total} stored
C11_Witness ==
    /\ last.op = "_handle_life_span"
    /\ Has(last.payload, "type") /\ last.payload.type \in ComponentTypes
    /\ Has(last.payload, "val") /\ Has(last.payload, "total") /\ Has(last.payload, "left")
    /\ last.payload.val = 1
    /\ Has(components, ComponentFromEcovacs(last.payload.type))
    /\ components[ComponentFromEcovacs(last.payload.type)] = Ratio(100, 3)

\* C37: after _handle_life_span handled an event with a known component type
\* and the fields of a shape, components[type] is the value computed from that
\* event, a computed 0 included; a step for an event with an unknown or
\* missing type leaves components unchanged
C37_LifeSpanFollowsLatestEvent ==
    /\ []((/\ last.op = "_handle_life_span"
           /\ Has(last.payload, "type") /\ last.payload.type \in ComponentTypes
           /\ HasShape(last.payload))
          => LET type == ComponentFromEcovacs(last.payload.type) IN
             /\ Has(components, type)
             /\ components[type] = LifeSpanOf(last.payload)[1])
    /\ [][(/\ last'.op = "_handle_life_span"
           /\ ~(Has(last'.payload, "type") /\ last'.payload.type \in ComponentTypes))
          => components' = components]_vars

----------------------------------------------------------------------------
(* Claims about run *)

\* the names of the known commands as the catalog writes them
KnownNames950 ==
    {r.label : r \in SimpleCommands950} \cup {r.label : r \in BaseCommands} \cup SpecialCommands950

SpellingsOf == [c \in KnownNames950 \cup LegacyNames |-> Spellings(c)]

\* the last call was run on the given session
RunCall(session) == last.op = "run" /\ last.session = session

\* C12: run with a name that matches no known command sends no request and
\* raises no error; for every known command, every upper/lower-case variant of
\* its name causes the same requests as the canonical spelling.
C12_UnknownIgnoredCaseInsensitive ==
    /\ (last.op = "run" /\ last.command \in UnknownNames)
           => (last.sent = <<>> /\ ~last.threw)
    /\ RunCall("950") =>
           \A c \in KnownNames950 :
               last.command \in SpellingsOf[c] =>
                   /\ last.sent = Requests950(c, last.args, last.device).sent
                   /\ last.threw = Requests950(c, last.args, last.device).threw
    /\ RunCall("legacy") =>
           \A c \in LegacyNames :
               last.command \in SpellingsOf[c] => last.sent = RequestsLegacy(c, last.args)

\* a known command was run under a spelling that is not the catalog's, and a
\* request was sent
C12_Witness ==
    /\ RunCall("950")
    /\ last.command \notin KnownNames950
    /\ \E c \in KnownNames950 : last.command \in SpellingsOf[c]
    /\ Len(last.sent) = 1

\* the commands the catalog gives required arguments
RequiresArguments950 ==
    {CmdGetMapImage, CmdSpotArea_V2, CmdCustomArea_V2, CmdMapPoint_V2, CmdSetDoNotDisturb,
     CmdEnableDoNotDisturb}

RequiresArgumentsLegacy ==
    {<<"S", "p", "o", "t", "A", "r", "e", "a">>,
     <<"C", "u", "s", "t", "o", "m", "A", "r", "e", "a">>,
     <<"G", "e", "t", "L", "i", "f", "e", "S", "p", "a", "n">>,
     <<"S", "e", "t", "W", "a", "t", "e", "r", "L", "e", "v", "e", "l">>}

\* C13: for every command that requires arguments, run with the required
\* arguments missing sends no wire request and raises no error.
C13_MissingArgumentsDropped ==
    /\ (/\ RunCall("950")
        /\ last.args = <<>>
        /\ \/ last.command \in RequiresArguments950
           \/ \E r \in SimpleCommands950 : r.label = last.command /\ r.minArgs > 0)
       => (last.sent = <<>> /\ ~last.threw)
    /\ (RunCall("legacy") /\ last.args = <<>> /\ last.command \in RequiresArgumentsLegacy)
       => (last.sent = <<>> /\ ~last.threw)

\* the call named a known command and gave every argument it needs
PassedValidation ==
    \/ /\ RunCall("950")
       /\ \/ \E r \in SimpleCommands950 : r.label = last.command /\ Len(last.args) >= r.minArgs
          \/ \E r \in BaseCommands : r.label = last.command
          \/ last.command \in SpecialCommands950 /\ Len(last.args) >= 1 /\ last.args[1] = Str("1")
    \/ /\ RunCall("legacy")
       /\ last.command \in LegacyNames
       /\ Len(last.args) = 3

\* C14: every run call that passes validation sends exactly one wire request,
\* except a local query that fetches through the REST collaborator and sends
\* none.
C14_ExactlyOneRequest ==
    /\ last.op = "run" => Len(last.sent) <= 1
    /\ (last.op = "run" /\ last.fetch) => last.sent = <<>>
    /\ (PassedValidation /\ ~last.fetch) => Len(last.sent) = 1

\* the component list the device's capabilities call for
ExpectedComponents(device) ==
    {ComponentToEcovacs(Str("filter")), ComponentToEcovacs(Str("side_brush"))}
        \cup (IF device.hasMainBrush THEN {ComponentToEcovacs(Str("main_brush"))} ELSE {})
        \cup (IF device.hasUnitCareInfo THEN {ComponentToEcovacs(Str("unit_care"))} ELSE {})
        \cup (IF device.hasRoundMopInfo THEN {ComponentToEcovacs(Str("round_mop"))} ELSE {})

\* C15: run('GetLifeSpan') without arguments sends one request whose component
\* list is exactly filter and side brush, main brush iff hasMainBrush(), unit
\* care iff hasUnitCareInfo(), round mop iff hasRoundMopInfo(); with one
\* argument c it sends one request carrying only component c.
C15_LifeSpanRequestComponents ==
    (RunCall("950") /\ last.command \in SpellingsOf[CmdGetLifeSpan] /\ Len(last.args) <= 1)
    => /\ Len(last.sent) = 1
       /\ last.sent[1].class = "GetLifeSpan"
       /\ Len(last.sent[1].args) = 1
       /\ LET list == last.sent[1].args[1]
          IN IF last.args = <<>>
             THEN /\ Range(list) = ExpectedComponents(last.device)
                  /\ Len(list) = Cardinality(ExpectedComponents(last.device))
             ELSE list = <<ComponentToEcovacs(last.args[1])>>

\* the full request was sent for a device without main brush but with unit
\* care
C15_Witness ==
    /\ RunCall("950")
    /\ last.command = CmdGetLifeSpan
    /\ last.args = <<>>
    /\ ~last.device.hasMainBrush /\ last.device.hasUnitCareInfo
    /\ Len(last.sent) = 1
    /\ emitFullLifeSpanEvent

----------------------------------------------------------------------------
(* Claims about the clean and charge state *)

CleanInfoCall == last.op = "handleCleanInfo"

\* the payload is no clean state, no alert, and decodes to returning
ReturningPayload(payload) ==
    /\ Get(payload, "state") # "clean"
    /\ Get(payload, "trigger") # "alert"
    /\ CleanModeFromEcovacs(Get(payload, "state")) = "returning"

\* C16: whenever handleCleanInfo handles a payload that is not in state
\* 'clean', is not an alert and whose state decodes to 'returning',
\* chargeStatus is 'returning' afterwards; for every other CleanInfo payload
\* handleCleanInfo leaves chargeStatus unchanged.
C16_ReturningSetsChargeStatus ==
    CleanInfoCall =>
        IF ReturningPayload(last.payload) THEN chargeStatus = "returning"
        ELSE chargeStatus = last.pre

\* a returning payload was handled while the bot was charging
C16_Witness ==
    /\ CleanInfoCall
    /\ ReturningPayload(last.payload)
    /\ last.pre = "charging"
    /\ chargeStatus = "returning"

\* C17: every CleanInfo payload whose state decodes to 'idle' causes
\* handleCleanInfo to issue exactly one GetChargeState request, and no
\* CleanInfo payload with any other state causes a GetChargeState request.
C17_IdleRequestsChargeState ==
    CleanInfoCall =>
        IF CleanModeFromEcovacs(Get(last.payload, "state")) = "idle"
        THEN last.sent = <<Request("GetChargeState", <<>>)>>
        ELSE \A i \in 1..Len(last.sent) : last.sent[i].class # "GetChargeState"

\* the payload is a working clean state whose content is an object of type
\* spotArea
SpotAreaPayload(payload) ==
    /\ Get(payload, "state") = "clean"
    /\ Has(payload, "cleanState")
    /\ payload.cleanState.motionState = "working"
    /\ IsObject(payload.cleanState.content)
    /\ Get(payload.cleanState.content[2], "type") = "spotArea"

\* C18: after handleCleanInfo handles a payload with state 'clean',
\* motionState 'working' and an object content of type 'spotArea' with value
\* v, the clean report is the spot-area clean mode, currentSpotAreas equals v
\* and currentCustomAreaValues is empty.
C18_SpotAreaCleanReport ==
    (CleanInfoCall /\ SpotAreaPayload(last.payload))
    => /\ cleanReport = CleanModeFromEcovacs("spotArea")
       /\ currentSpotAreas = Get(last.payload.cleanState.content[2], "value")
       /\ currentCustomAreaValues = ""

\* the spot areas 1,2 were recorded from a content object, the clean state
\* itself naming no type
C18_Witness ==
    /\ CleanInfoCall
    /\ SpotAreaPayload(last.payload)
    /\ ~Has(last.payload.cleanState, "type")
    /\ currentSpotAreas = "1,2"
    /\ cleanReport = "spot_area"

----------------------------------------------------------------------------
(* Claims about the distance to the charging station *)

\* C29: after every handlePos call the stored distanceToChargingStation is
\* the distance between the stored deebotPosition and the stored
\* chargePosition, once both are known; a payload that changes only the
\* charger position leaves no stale distance behind.
C29_DistanceConsistency ==
    (last.op = "handlePos" /\ deebotPosition.x # Null /\ chargePosition.x # Null)
        => deebotPosition.distanceToChargingStation =
               GetDistanceToChargingStation(deebotPosition.x, deebotPosition.y,
                                            chargePosition.x, chargePosition.y)

----------------------------------------------------------------------------
(* Claims about the rounds of the virtual-boundary join *)

\* the last call was run('GetVirtualBoundaries', m) with a valid map ID m
BoundaryRequestCall ==
    /\ last.op = "run"
    /\ last.session = "950"
    /\ ToLowerCase(last.command) = ToLowerCase(CmdGetVirtualBoundaries)
    /\ Len(last.args) >= 1
    /\ IsPositive(ToNumberValue(last.args[1]))

\* the last call returned the consolidated result of a map
ConsolidatedCall == BoundaryCall /\ last.mapsetEvent = "MapVirtualBoundaries"

\* C27: after run('GetVirtualBoundaries', m) with a valid map ID m both
\* received-flags of m are false and the 'vw' request was sent before the
\* 'mw' request; no handleMapSet call returns 'MapVirtualBoundaries' for m
\* until both a 'vw' and a 'mw' payload for m have been handled after that
\* run call.
C27_JoinResetOnRequest ==
    /\ BoundaryRequestCall =>
           /\ mapVirtualBoundariesResponses[ArgToString(last.args[1])] = <<FALSE, FALSE>>
           /\ last.sent = <<Request("GetMapVirtualBoundaries", <<last.args[1], Str("vw")>>),
                            Request("GetMapVirtualBoundaries", <<last.args[1], Str("mw")>>)>>
    /\ ConsolidatedCall => joinHist[last.mapMID].handled = BoundaryTypes

\* a consolidated result of a round that followed earlier deliveries: the
\* list holds more boundaries than the round delivered
C27_Witness ==
    /\ ConsolidatedCall
    /\ joinHist[last.mapMID].emitted = 1
    /\ Len(mapVirtualBoundaries[last.mapMID]) > Len(joinHist[last.mapMID].delivered)

\* what an object holds under a key, <<>> when it holds nothing
Held(obj, key) == IF Has(obj, key) THEN obj[key] ELSE <<>>

\* the boundaries a handleMapSet step delivered for its map
DeliveredNow(m) ==
    SubSeq(joinHist'[m].delivered, Len(joinHist[m].delivered) + 1, Len(joinHist'[m].delivered))

\* C28: the join is tracked per map ID: a 'vw' payload for a map A together
\* with a 'mw' payload for a map B never produces a consolidated event for
\* either map, and the data of a consolidated event for A never contains a
\* boundary delivered for B.
C28_JoinPerMap ==
    [][(last'.op = "handleMapSet" /\ last'.type \in BoundaryTypes /\ last'.mapMID \in MapIds)
          => LET a == last'.mapMID IN
             /\ \A b \in MapIds \ {a} :
                    /\ Held(mapVirtualBoundaries', b) = Held(mapVirtualBoundaries, b)
                    /\ Held(mapVirtualBoundariesResponses', b) =
                           Held(mapVirtualBoundariesResponses, b)
                    /\ joinHist'[b] = joinHist[b]
             /\ mapVirtualBoundaries'[a] = Held(mapVirtualBoundaries, a) \o DeliveredNow(a)
             /\ last'.mapsetEvent = "MapVirtualBoundaries"
                    => /\ joinHist'[a].handled = BoundaryTypes
                       /\ last'.mapsetData = mapVirtualBoundaries'[a]]_vars

\* a wall payload of map 1 and a mop payload of map 2 were handled, and
\* neither map has a consolidated result
C28_Witness ==
    /\ BoundaryCall
    /\ last.mapsetEvent = "skip"
    /\ joinHist["1"].handled = {"vw"}
    /\ joinHist["2"].handled = {"mw"}
    /\ joinHist["1"].emitted = 0
    /\ joinHist["2"].emitted = 0

\* C30: for any sequence of GetVirtualBoundaries rounds of one map, the data
\* of the consolidated result of a round holds exactly the boundaries
\* delivered by that round's 'vw' and 'mw' payloads, each once; boundaries of
\* an earlier round or of a repeated payload are not retained or duplicated.
C30_NoAccumulationAcrossRounds ==
    ConsolidatedCall =>
        /\ Range(last.mapsetData) = Range(joinHist[last.mapMID].delivered)
        /\ Len(last.mapsetData) = Cardinality(Range(joinHist[last.mapMID].delivered))

----------------------------------------------------------------------------
(* Claims about the full-map images *)

\* the keys (mapID, imageType) with an image
ImageKeys(images) == UNION {{<<m, t>> : t \in DOMAIN images[m]} : m \in DOMAIN images}

\* a map ID that is a number
IsNumericMapId(v) == v \in {"0", "1", "2"}

\* the image of the last call's key, now
ImageOfLast == mapImages[last.payload.mid][last.payload.type]

C20_ImagePerKey ==
    [][/\ \A p \in MapInfoPayloads :
              HandleMapInfo(p) =>
                  IF ~IsNumericMapId(p.mid) THEN last'.returned = "null" /\ UNCHANGED imgVars
                  ELSE /\ \A k \in ImageKeys(mapImages) :
                              /\ k \in ImageKeys(mapImages')
                              /\ mapImages'[k[1]][k[2]] = mapImages[k[1]][k[2]]
                       /\ ImageKeys(mapImages') = ImageKeys(mapImages) \cup {<<p.mid, p.type>>}
                       /\ <<p.mid, p.type>> \notin ImageKeys(mapImages) =>
                              mapImages'[p.mid][p.type] =
                                  EcovacsMapImage(p.mid, p.type, p.totalCount)
                       /\ p.pieceValue = "" => UNCHANGED mapInfoPending
       /\ \A i \in 1..Len(mapInfoPending) :
              MapPieceUpdated(i) =>
                  LET p == mapInfoPending[i] IN
                  /\ ImageKeys(mapImages') = ImageKeys(mapImages)
                  /\ \A k \in ImageKeys(mapImages) \ {<<p.mid, p.type>>} :
                         mapImages'[k[1]][k[2]] = mapImages[k[1]][k[2]]
                  /\ [mapImages'[p.mid][p.type] EXCEPT !.pieces = <<>>] =
                         [mapImages[p.mid][p.type] EXCEPT !.pieces = <<>>]]_vars

\* a later payload announcing 3 pieces was handled for the key whose image
\* was created for 2 pieces and holds a piece; images of other keys exist
C20_Witness ==
    /\ last.op = "handleMapInfo"
    /\ last.payload.totalCount = 3
    /\ ImageOfLast.totalCount = 2
    /\ ImageOfLast.pieces # <<>>
    /\ Cardinality(ImageKeys(mapImages)) >= 2

\* the (mapID, imageType) key of a payload
KeyOf(payload) == <<payload.mid, payload.type>>

\* C23: of two map-piece payloads with the same (mapID, imageType) delivered
\* one after the other to handleMapInfo, the second is not applied while the
\* awaited decode of the first is in flight, and the pieces are applied in
\* arrival order; pieces of different keys may interleave.
C23_PerKeySerialisation ==
    [][\A i \in 1..Len(mapInfoPending) :
          MapPieceUpdated(i) =>
              \A j \in 1..(i - 1) : KeyOf(mapInfoPending[j]) # KeyOf(mapInfoPending[i])]_vars

----------------------------------------------------------------------------
(* Claims about the decode path *)

\* C25: no decode handler terminates the session: for every handler and
\* every payload in which an expected field or sub-structure is missing
\* (CleanInfo with state 'clean' but no cleanState, an error payload without
\* code), the handler returns without throwing.
C25_HandlersDoNotThrow ==
    last.op \in {"handleCleanInfo", "handleResponseError"} => ~last.threw

----------------------------------------------------------------------------
(* Claims about run('GetCleanLogs') *)

\* the names of the events, in the order of their emission
EventNames(events) == [i \in DOMAIN events |-> events[i].name]

\* C26: run('GetCleanLogs') on the T9 family sends no wire command; it
\* fetches, and only after the fetch has resolved and handleCleanLogs has
\* decoded the result the events CleanLog, CleanLog_lastImageUrl,
\* CleanLog_lastImageTimestamp, CleanLog_lastTimestamp,
\* CleanLog_lastSquareMeters, CleanLog_lastTotalTimeString and LastCleanLogs
\* are emitted in that order; on every other model it sends exactly one
\* GetCleanLogs wire command and emits none of these events itself.
C26_CleanLogsFetch ==
    [][/\ (last'.op = "run" /\ last'.session = "950"
             /\ ToLowerCase(last'.command) = ToLowerCase(CmdGetCleanLogs))
          => /\ UNCHANGED <<emitted, logVars>>
             /\ IF last'.device.modelType = "T9"
                THEN /\ last'.sent = <<>>
                     /\ last'.fetch
                     /\ cleanLogsFetches' = cleanLogsFetches + 1
                ELSE /\ last'.sent = <<Request("GetCleanLogs", <<>>)>>
                     /\ ~last'.fetch
                     /\ UNCHANGED cleanLogsFetches
       /\ (last'.op = "handleCleanLogs" /\ cleanLogsFetches' # cleanLogsFetches)
          => /\ cleanLogsFetches > 0
             /\ cleanLogsFetches' = cleanLogsFetches - 1
             /\ EventNames(emitted') =
                    <<"CleanLog", "CleanLog_lastImageUrl", "CleanLog_lastImageTimestamp",
                      "CleanLog_lastTimestamp", "CleanLog_lastSquareMeters",
                      "CleanLog_lastTotalTimeString", "LastCleanLogs">>
             /\ emitted'[1].value = cleanLog'
             /\ emitted'[4].value = cleanLog_lastTimestamp'
       /\ emitted' # emitted => last'.op = "handleCleanLogs" /\ cleanLogsFetches > 0]_vars

\* the fetch of a T9 run has resolved with a log and the events are out
C26_Witness ==
    /\ last.op = "handleCleanLogs"
    /\ Len(emitted) = 7
    /\ emitted[1].value # <<>>
    /\ emitted[1].value = cleanLog
    /\ cleanLogsFetches = 0

----------------------------------------------------------------------------
(* Claims about the connection of the legacy session *)

\* C24: after disconnect() no further command or ping is handed to the
\* transport (a later run call or keep-alive tick sends nothing) and the
\* keep-alive interval started by connect_and_wait_until_ready is cancelled.
C24_DisconnectTeardown ==
    disconnected =>
        /\ intervals = 0
        /\ last.op \in {"run", "ping"} => last.sent = <<>>

----------------------------------------------------------------------------
(* Claims about the live map *)

\* C21: after any sequence of major payloads with numeric map IDs the live
\* image is keyed by the map ID of the most recent one; a major payload with
\* a different map ID replaces the live image wholesale, one with the same
\* map ID keeps the image and only updates its piece checksums, and one with
\* a non-numeric map ID changes nothing.
C21_LiveMapReplacement ==
    [][\A p \in MajorMapPayloads :
          HandleMajorMap(p) =>
              IF ~IsNumericMapId(p.mid) THEN UNCHANGED liveVars
              ELSE /\ liveMapImage'.mapID = p.mid
                   /\ IF liveMapImage = <<>> \/ liveMapImage.mapID # p.mid
                      THEN liveMapImage' =
                               EcovacsLiveMapImage(p.mid, p.type, p.pieceWidth, p.value)
                      ELSE /\ liveMapImage'.crc = p.value
                           /\ [liveMapImage' EXCEPT !.crc = liveMapImage.crc] = liveMapImage]_vars

C31_MinorMapOwnImage ==
    [][\A i \in 1..Len(minorMapPending) :
          MinorMapPatched(i) =>
              LET mapMID == minorMapPending[i].payload.mid IN
              /\ last'.returned.mapID = mapMID
              /\ liveMapImage.mapID # mapMID => liveMapImage' = liveMapImage]_vars

----------------------------------------------------------------------------
(* Claims about the clean state, the charge state and the battery *)

\* the area type a handled CleanInfo payload reports: of a payload with state
\* 'clean', the type of the content when that is an object, else the type of
\* the clean state
ReportedAreaType(payload) ==
    IF Get(payload, "state") = "clean" /\ Has(payload, "cleanState")
    THEN IF payload.cleanState.content[1] = "obj"
         THEN Get(payload.cleanState.content[2], "type")
         ELSE Get(payload.cleanState, "type")
    ELSE Undefined

\* the area values a handled CleanInfo payload carries
ReportedAreaValues(payload) ==
    LET content == payload.cleanState.content IN
    CASE content[1] = "obj" -> Get(content[2], "value")
      [] content[1] = "str" -> content[2]
      [] OTHER -> Undefined

\* C33: after a handleCleanInfo call at most one of currentSpotAreas and
\* currentCustomAreaValues is non-empty; currentSpotAreas is non-empty only
\* when the handled payload reported state 'clean' with type 'spotArea', and
\* then holds the values of that payload; currentCustomAreaValues is non-empty
\* only when it reported type 'customArea', and then holds the values of that
\* payload
C33_AreaFieldsReset ==
    last.op = "handleCleanInfo" =>
        /\ currentSpotAreas = "" \/ currentCustomAreaValues = ""
        /\ currentSpotAreas # "" =>
               /\ ReportedAreaType(last.payload) = "spotArea"
               /\ currentSpotAreas = ReportedAreaValues(last.payload)
        /\ currentCustomAreaValues # "" =>
               /\ ReportedAreaType(last.payload) = "customArea"
               /\ currentCustomAreaValues = ReportedAreaValues(last.payload)
        /\ ReportedAreaType(last.payload) \notin {"spotArea", "customArea"} =>
               currentSpotAreas = "" /\ currentCustomAreaValues = ""

\* C34: handleChargeState leaves chargeStatus 'charging' when the payload's
\* isCharging is 1 and 'idle' otherwise, and chargeMode the payload's mode or
\* 'slot'; chargeStatus becomes 'returning' in handleCleanInfo steps only, so
\* after a handled ChargeState response it is never 'returning'
C34_ChargeStatus ==
    /\ [](last.op = "handleChargeState" =>
             /\ chargeStatus \in {"idle", "charging"}
             /\ chargeStatus = "charging" <=>
                    ("isCharging" \in DOMAIN last.payload /\ last.payload.isCharging = 1)
             /\ chargeMode = IF "mode" \in DOMAIN last.payload THEN last.payload.mode ELSE "slot")
    /\ [][chargeStatus' = "returning" /\ chargeStatus # "returning" =>
               last'.op = "handleCleanInfo"]_vars

\* the ChargeState response after the idle CleanInfo that ended a return to
\* the dock was handled
C34_Witness ==
    /\ last.op = "handleChargeState"
    /\ last.pre = "returning"
    /\ cleanReport = "idle"
    /\ chargeStatus = "idle"

\* C38: after handleBattery, batteryIsLow is the truth value of the payload's
\* isLow when the payload has one, and otherwise holds exactly when the
\* reported level is below 15
C38_BatteryLowFlag ==
    last.op = "handleBattery" =>
        batteryIsLow = IF "isLow" \in DOMAIN last.payload THEN last.payload.isLow = 1
                       ELSE last.payload.value < 15

\* a custom-area payload was handled and its values are the only ones held
C33_Witness ==
    /\ last.op = "handleCleanInfo"
    /\ ReportedAreaType(last.payload) = "customArea"
    /\ currentCustomAreaValues = "1,2,3,4"
    /\ currentSpotAreas = ""

----------------------------------------------------------------------------
(* Claims about the clean report and the bootstrap of the legacy session *)

\* the action code a clean report carries: st, else act
ReportedAction(attrs) ==
    CASE "st" \in DOMAIN attrs -> attrs.st
      [] "act" \in DOMAIN attrs -> attrs.act
      [] OTHER -> "none"

\* C39: after _handle_clean_report, clean_status equals vacuum_status; both
\* are 'unknown' for an event without attrs; when the st field, else the act
\* field, is the code of stop or of pause the status is that action, and
\* otherwise it is the decoded clean type; fan_speed changes only in a step
\* whose event carries a speed of the table, to the decoded speed
C39_CleanReport ==
    /\ [](last.op = "_handle_clean_report" =>
             /\ clean_status = vacuum_status
             /\ "attrs" \notin DOMAIN last.event => vacuum_status = "unknown"
             /\ "attrs" \in DOMAIN last.event =>
                    LET attrs == last.event.attrs IN
                    CASE ReportedAction(attrs) = "h" -> vacuum_status = "stop"
                      [] ReportedAction(attrs) = "p" -> vacuum_status = "pause"
                      [] OTHER ->
                           ("type" \in DOMAIN attrs /\ attrs.type \in LegacyCleanModes) =>
                               vacuum_status = LegacyCleanModeFromEcovacs(attrs.type))
    /\ [][fan_speed' # fan_speed =>
              /\ last'.op = "_handle_clean_report"
              /\ "attrs" \in DOMAIN last'.event
              /\ "speed" \in DOMAIN last'.event.attrs
              /\ last'.event.attrs.speed \in LegacyFanSpeeds
              /\ fan_speed' = FanSpeedFromEcovacs(last'.event.attrs.speed)]_vars

\* a report with a start code in st and a pause code in act was handled: the
\* status is the decoded type; its unknown speed left the earlier fan speed
C39_Witness ==
    /\ last.op = "_handle_clean_report"
    /\ "attrs" \in DOMAIN last.event
    /\ DOMAIN last.event.attrs = {"type", "st", "act", "speed"}
    /\ last.event.attrs.st = "s"
    /\ last.event.attrs.act = "p"
    /\ last.event.attrs.type = "border"
    /\ last.event.attrs.speed = "zz"
    /\ vacuum_status = "edge"
    /\ fan_speed = "high"

\* the requests of the bootstrap for a model with or without a main brush
\* and a mopping system
BootstrapRequests(mainBrush, moppingSystem) ==
    <<[class |-> "GetBatteryState", args |-> <<>>], [class |-> "GetCleanState", args |-> <<>>],
      [class |-> "GetChargeState", args |-> <<>>]>>
        \o (IF mainBrush THEN <<[class |-> "GetLifeSpan", args |-> <<Str("main_brush")>>]>>
            ELSE <<>>)
        \o <<[class |-> "GetLifeSpan", args |-> <<Str("side_brush")>>],
             [class |-> "GetLifeSpan", args |-> <<Str("filter")>>]>>
        \o (IF moppingSystem THEN <<[class |-> "GetWaterLevel", args |-> <<>>]>> ELSE <<>>)

\* C40: every 'ready' event sends the requests of the bootstrap, those of the
\* main brush and of the water level only on a model that has the part, in
\* the listed order and nothing else; a step that hands a request to
\* send_command is a 'ready' step or a call of run
C40_ReadyBootstrap ==
    /\ [](last.op = "ready" =>
             last.sent = BootstrapRequests(last.hasMainBrush, last.hasMoppingSystem))
    /\ [][last' # last =>
              \/ last'.op \in {"ready", "run"}
              \/ last'.op = "ping"
              \/ last'.sent = <<>>]_vars

\* a 'ready' event on a model without main brush and with a mopping system
\* was handled
C40_Witness ==
    /\ last.op = "ready"
    /\ ~last.hasMainBrush
    /\ last.hasMoppingSystem
    /\ Len(last.sent) = 6

----------------------------------------------------------------------------
(* Claims about the map subsets and the map registry *)

\* the key of mapSpotAreaInfos a pending handleMapSubset call was received for
ArrivalMapOf(call) ==
    IF IsNaN(call.payload.mid) THEN call.activeOnArrival ELSE call.payload.mid

\* C32: when the decompression of a handleMapSubset call resolves, the
\* spot-area info is stored under the map ID the payload named or, for a
\* payload without a numeric map ID, under the map that was active when the
\* payload arrived, whatever the active map is by then; it is keyed by the
\* payload's mssid, replaces what was stored under that (map, mssid), and
\* leaves every other (map, mssid) alone
C32_SubsetStoredUnderArrivalMap ==
    [][\A i \in 1..Len(mapSubsetPending) :
          MapSubsetDecoded(i) =>
              LET call == mapSubsetPending[i]
                  mapMID == ArrivalMapOf(call)
                  mssid == call.payload.mssid
              IN /\ Has(mapSpotAreaInfos', mapMID)
                 /\ Has(mapSpotAreaInfos'[mapMID], mssid)
                 /\ mapSpotAreaInfos'[mapMID][mssid] =
                        [mapID |-> mapMID, mapSpotAreaID |-> mssid,
                         mapSpotAreaBoundaries |-> MapPieceToIntArray(call.payload.value),
                         mapSpotAreaName |-> ""]
                 /\ \A m \in DOMAIN mapSpotAreaInfos' : \A a \in DOMAIN mapSpotAreaInfos'[m] :
                        <<m, a>> # <<mapMID, mssid>> =>
                            /\ Has(mapSpotAreaInfos, m)
                            /\ Has(mapSpotAreaInfos[m], a)
                            /\ mapSpotAreaInfos'[m][a] = mapSpotAreaInfos[m][a]]_vars

\* a payload without a map ID is waiting for its decompression, the active map
\* is no longer the one it arrived under, and that map already holds an info
\* under the payload's mssid
C32_Witness ==
    \E i \in 1..Len(mapSubsetPending) :
        LET call == mapSubsetPending[i] IN
        /\ IsNaN(call.payload.mid)
        /\ call.activeOnArrival \in MapIds
        /\ currentMapMID # call.activeOnArrival
        /\ Has(SpotAreaInfosOf(call.activeOnArrival), call.payload.mssid)

\* the IDs of the list a clean-log payload carries under 'logs', else under
\* 'log', else under 'data'
PayloadLogIds(payload) ==
    LET list == CASE "logs" \in DOMAIN payload -> payload.logs
                  [] "log" \in DOMAIN payload -> payload.log
                  [] "data" \in DOMAIN payload -> payload.data
                  [] OTHER -> <<>>
    IN {list[i].id : i \in DOMAIN list}

\* C36: after a handleCleanLogs call the store holds exactly the log IDs of
\* the handled payload's list, so entries of earlier calls are gone; the
\* 'last clean' summary is never reset: its timestamp does not decrease, and a
\* call whose payload has no entries leaves all its fields as they were
C36_StoreReflectsOnePayload ==
    /\ [](last.op = "handleCleanLogs" => DOMAIN cleanLog = PayloadLogIds(last.payload))
    /\ [][/\ cleanLog_lastTimestamp' >= cleanLog_lastTimestamp
          /\ (last'.op = "handleCleanLogs" /\ PayloadLogIds(last'.payload) = {}) =>
                 UNCHANGED <<cleanLog_lastTimestamp, cleanLog_lastSquareMeters,
                             cleanLog_lastTotalTime, cleanLog_lastTotalTimeString,
                             cleanLog_lastImageUrl>>]_vars

\* the summary refers to an entry that is no longer in the store: the last
\* call replaced the store, and no stored entry has the summary's timestamp
C36_Witness ==
    /\ last.op = "handleCleanLogs"
    /\ cleanLog_lastTimestamp > 0
    /\ cleanLog # <<>>
    /\ \A id \in DOMAIN cleanLog : cleanLog[id].timestamp # cleanLog_lastTimestamp

\* the entries of a handled CachedMapInfo payload that are flagged as in use
\* and have a map ID other than '0'
InUse(payload) ==
    {i \in 1..Len(payload.info) : payload.info[i].using = 1 /\ payload.info[i].mid # "0"}

\* C35: after a handleCachedMapInfo call the current map name, ID and index
\* are those of one entry of the payload flagged as in use; when no entry is
\* in use the name is 'unknown' and the ID is not the one of a map; the
\* registry holds the entries of this payload with a map ID other than '0',
\* in order, and nothing else
C35_CurrentMapConsistency ==
    last.op = "handleCachedMapInfo" =>
        LET info == last.payload.info
            registered == {i \in 1..Len(info) : info[i].mid # "0"}
        IN /\ InUse(last.payload) # {} =>
                  \E i \in InUse(last.payload) :
                      /\ currentMapName = info[i].name
                      /\ currentMapMID = info[i].mid
                      /\ currentMapIndex = info[i].index
           /\ InUse(last.payload) = {} =>
                  /\ currentMapName = "unknown"
                  /\ currentMapMID \notin MapIds
           /\ \A k \in 1..Len(maps) : maps[k].mapID # "0"
           /\ Len(maps) = Cardinality(registered)
           /\ \A k \in 1..Len(maps) :
                  \E i \in registered :
                      /\ Cardinality({j \in registered : j <= i}) = k
                      /\ maps[k].mapID = info[i].mid
                      /\ maps[k].mapName = info[i].name
                      /\ maps[k].mapIndex = info[i].index

----------------------------------------------------------------------------
(* Specifications *)

Init ==
    /\ currentMapMID = ""
    /\ mapVirtualBoundaries = <<>>
    /\ mapVirtualBoundariesResponses = <<>>
    /\ last = NoCall
    /\ joinHist = [m \in MapIds |-> EmptyJoin]
    /\ mapSpotAreaInfos = <<>>
    /\ deebotPosition = [x |-> Null, y |-> Null, a |-> Null, isInvalid |-> Bool(FALSE),
                         currentSpotAreaID |-> "unknown", currentSpotAreaName |-> "unknown",
                         changeFlag |-> FALSE, distanceToChargingStation |-> Null]
    /\ chargePosition = [x |-> Null, y |-> Null, a |-> Null, changeFlag |-> FALSE]
    /\ errorCode = "0"
    /\ errorDescription = ErrorCodes("0")
    /\ error_event = NullText
    /\ components = <<>>
    /\ components_950 = <<>>
    /\ createMapDataObject = Bool(FALSE)
    /\ createMapImage = Bool(FALSE)
    /\ createMapImageOnly = Bool(FALSE)
    /\ emitFullLifeSpanEvent = FALSE
    /\ lastComponentValues = <<>>
    /\ currentSpotAreas = ""
    /\ currentCustomAreaValues = ""
    /\ cleanReport = Undefined
    /\ chargeStatus = Undefined
    /\ chargeMode = "slot"
    /\ mapImages = <<>>
    /\ mapInfoPending = <<>>
    /\ liveMapImage = <<>>
    /\ minorMapPending = <<>>
    /\ cleanLogsFetches = 0
    /\ emitted = <<>>
    /\ ping_interval = "null"
    /\ intervals = 0
    /\ disconnected = FALSE
    /\ mapSubsetPending = <<>>
    /\ currentMapName = "unknown"
    /\ currentMapIndex = 0
    /\ maps = <<>>
    /\ batteryLevel = Null
    /\ batteryIsLow = FALSE
    /\ vacuum_status = "null"
    /\ clean_status = "null"
    /\ fan_speed = "null"
    /\ cleanLog = <<>>
    /\ cleanLog_lastTimestamp = 0
    /\ cleanLog_lastSquareMeters = 0
    /\ cleanLog_lastTotalTime = 0
    /\ cleanLog_lastTotalTimeString = <<0, 0, 0>>
    /\ cleanLog_lastImageUrl = ""
    /\ logHist = [newest |-> NoEntry, first |-> <<>>]

\* the fields no handler of the map, position, log, error and life-span
\* messages writes
restVars == <<runVars, cleanVars, imgVars, liveVars, connVars, fetchVars, extVars>>

NextMapSet ==
    \/ \E payload \in MapSetPayloads : HandleMapSet(payload) /\ UNCHANGED <<posVars, logVars, errVars, lifeVars, restVars, cacheVars>>
    \/ \E mapID \in MapIds \cup {"0"} :
           /\ Run950(CmdGetVirtualBoundaries, <<Str(mapID)>>, DefaultDevice)
           /\ UNCHANGED <<currentMapMID, mapVirtualBoundaries, posVars, logVars, errVars,
                          components, cleanVars, imgVars, liveVars, connVars, emitted, cacheVars, extVars>>
    \/ \E mid \in MapIds : HandleMapInfoV2([mid |-> mid]) /\ UNCHANGED <<posVars, logVars, errVars, lifeVars, restVars>>

SpecMapSet == Init /\ [][NextMapSet]_vars

NextCleanLogs ==
    \E payload \in CleanLogPayloads \cup MixedLogPayloads : HandleCleanLogs(payload) /\ UNCHANGED <<mapVars, posVars, errVars, lifeVars, restVars, cacheVars>>

SpecCleanLogs == Init /\ [][NextCleanLogs]_vars

mapJoinVars == <<mapVirtualBoundaries, mapVirtualBoundariesResponses, joinHist>>

NextPos ==
    \/ \E payload \in PosPayloads : HandlePos(payload) /\ UNCHANGED <<mapJoinVars, logVars, errVars, lifeVars, restVars, cacheVars>>
    \/ EmitPosition /\ UNCHANGED <<mapJoinVars, logVars, errVars, lifeVars, restVars, cacheVars>>
    \/ \E payload \in MapSubsetPayloads :
           HandleMapSubset(payload) /\ UNCHANGED <<mapJoinVars, logVars, errVars, lifeVars, restVars, cacheVars>>
    \/ \E mid \in MapIds : HandleMapInfoV2([mid |-> mid]) /\ UNCHANGED <<posVars, logVars, errVars, lifeVars, restVars>>

SpecPos == Init /\ [][NextPos]_vars

NextMapSubset ==
    \/ \E payload \in CompressedSubsetPayloads :
           HandleMapSubsetCompressed(payload)
               /\ UNCHANGED <<mapJoinVars, logVars, errVars, lifeVars, runVars, cleanVars, imgVars,
                              liveVars, connVars, fetchVars, cacheVars, battVars, reportVars>>
    \/ \E i \in 1..Len(mapSubsetPending) :
           MapSubsetDecoded(i)
               /\ UNCHANGED <<mapJoinVars, logVars, errVars, lifeVars, runVars, cleanVars, imgVars,
                              liveVars, connVars, fetchVars, cacheVars, battVars, reportVars>>
    \/ HandleMapInfoV2([mid |-> "2"]) /\ UNCHANGED <<posVars, logVars, errVars, lifeVars, restVars>>
    \/ \E payload \in {[info |-> <<[mid |-> "1", index |-> 1, name |-> "home", using |-> 1]>>]} :
           HandleCachedMapInfo(payload) /\ UNCHANGED <<posVars, logVars, errVars, lifeVars, restVars>>

SpecMapSubset == Init /\ [][NextMapSubset]_vars

NextCachedMapInfo ==
    \/ \E payload \in CachedMapInfoPayloads :
           HandleCachedMapInfo(payload) /\ UNCHANGED <<posVars, logVars, errVars, lifeVars, restVars>>
    \/ \E mid \in MapIds : HandleMapInfoV2([mid |-> mid]) /\ UNCHANGED <<posVars, logVars, errVars, lifeVars, restVars>>

SpecCachedMapInfo == Init /\ [][NextCachedMapInfo]_vars

NextChargePos ==
    \/ \E payload \in ChargePosPayloads : HandlePos(payload) /\ UNCHANGED <<mapJoinVars, logVars, errVars, lifeVars, restVars, cacheVars>>
    \/ EmitPosition /\ UNCHANGED <<mapJoinVars, logVars, errVars, lifeVars, restVars, cacheVars>>

SpecChargePos == Init /\ [][NextChargePos]_vars

NextError ==
    \/ \E payload \in ErrorPayloads :
           HandleResponseError(payload) /\ UNCHANGED <<mapVars, posVars, logVars, lifeVars, restVars, cacheVars>>
    \/ \E event \in ErrorEvents : Handle_error(event) /\ UNCHANGED <<mapVars, posVars, logVars, lifeVars, restVars, cacheVars>>

SpecError == Init /\ [][NextError]_vars

NextLifeSpan ==
    \/ \E event \in LifeSpanEvents :
           Handle_life_span(event) /\ UNCHANGED <<mapVars, posVars, logVars, errVars, restVars, cacheVars>>
    \/ \E payload \in LifeSpanPayloads :
           HandleLifespan(payload) /\ UNCHANGED <<mapVars, posVars, logVars, errVars, restVars, cacheVars>>

SpecLifeSpan == Init /\ [][NextLifeSpan]_vars

NextCleanInfo ==
    \/ \E payload \in CleanInfoPayloads :
           HandleCleanInfo(payload)
               /\ UNCHANGED <<mapVars, posVars, logVars, errVars, lifeVars, runVars, imgVars, liveVars, connVars, fetchVars, cacheVars, extVars>>
    \/ \E payload \in ChargeStatePayloads :
           HandleChargeState(payload)
               /\ UNCHANGED <<mapVars, posVars, logVars, errVars, lifeVars, runVars, imgVars, liveVars, connVars, fetchVars, cacheVars, extVars>>

SpecCleanInfo == Init /\ [][NextCleanInfo]_vars

NextBattery ==
    \/ \E payload \in BatteryPayloads :
           HandleBattery(payload)
               /\ UNCHANGED <<mapVars, posVars, logVars, errVars, lifeVars, runVars, cleanVars, imgVars,
                              liveVars, connVars, fetchVars, cacheVars, subsetVars, reportVars>>
    \/ \E payload \in ChargeStatePayloads :
           HandleChargeState(payload)
               /\ UNCHANGED <<mapVars, posVars, logVars, errVars, lifeVars, runVars, imgVars, liveVars, connVars, fetchVars, cacheVars, extVars>>

SpecBattery == Init /\ [][NextBattery]_vars

NextMapInfo ==
    \/ \E payload \in MapInfoPayloads :
           HandleMapInfo(payload)
               /\ UNCHANGED <<mapVars, posVars, logVars, errVars, lifeVars, runVars, cleanVars, liveVars, connVars, fetchVars, cacheVars, extVars>>
    \/ \E i \in 1..Len(mapInfoPending) :
           MapPieceUpdated(i)
               /\ UNCHANGED <<mapVars, posVars, logVars, errVars, lifeVars, runVars, cleanVars, liveVars, connVars, fetchVars, cacheVars, extVars>>

SpecMapInfo == Init /\ [][NextMapInfo]_vars

NextLiveMap ==
    \/ \E payload \in MajorMapPayloads :
           HandleMajorMap(payload)
               /\ UNCHANGED <<mapVars, posVars, logVars, errVars, lifeVars, runVars, cleanVars, imgVars, connVars, fetchVars, cacheVars, extVars>>
    \/ \E payload \in MinorMapPayloads :
           HandleMinorMap(payload)
               /\ UNCHANGED <<mapVars, posVars, logVars, errVars, lifeVars, runVars, cleanVars, imgVars, connVars, fetchVars, cacheVars, extVars>>
    \/ \E i \in 1..Len(minorMapPending) :
           MinorMapPatched(i)
               /\ UNCHANGED <<mapVars, posVars, logVars, errVars, lifeVars, runVars, cleanVars, imgVars, connVars, fetchVars, cacheVars, extVars>>

SpecLiveMap == Init /\ [][NextLiveMap]_vars

NextGetCleanLogs ==
    \/ \E device \in DeviceSamples :
           /\ Run950(CmdGetCleanLogs, <<>>, device)
           /\ UNCHANGED <<currentMapMID, mapVirtualBoundaries, posVars, logVars, errVars,
                          components, cleanVars, imgVars, liveVars, connVars, emitted, cacheVars, extVars>>
    \/ \E logData \in {p \in CleanLogPayloads : Has(p, "log")} :
           CleanLogsFetched(logData)
               /\ UNCHANGED <<mapVars, posVars, errVars, lifeVars, runVars, cleanVars, imgVars,
                              liveVars, connVars, cacheVars, extVars>>

SpecGetCleanLogs == Init /\ [][NextGetCleanLogs]_vars

NextConnection ==
    \/ Connect_and_wait_until_ready
           /\ UNCHANGED <<mapVars, posVars, logVars, errVars, lifeVars, runVars, cleanVars, imgVars, liveVars, fetchVars, cacheVars, extVars>>
    \/ PingTick
           /\ UNCHANGED <<mapVars, posVars, logVars, errVars, lifeVars, runVars, cleanVars, imgVars, liveVars, fetchVars, cacheVars, extVars>>
    \/ Disconnect
           /\ UNCHANGED <<mapVars, posVars, logVars, errVars, lifeVars, runVars, cleanVars, imgVars, liveVars, fetchVars, cacheVars, extVars>>
    \/ \E capabilities \in BOOLEAN \X BOOLEAN :
           /\ Ready(capabilities[1], capabilities[2])
           /\ UNCHANGED <<mapVars, posVars, logVars, errVars, lifeVars, restVars, cacheVars>>
    \/ \E call \in LegacyNames \X {<<>>, ArgsOfLen(1)} :
           /\ RunLegacy(call[1], call[2])
           /\ UNCHANGED <<mapVars, posVars, logVars, errVars, lifeVars, restVars, cacheVars>>

SpecConnection == Init /\ [][NextConnection]_vars

NextCleanReport ==
    \E event \in CleanReportEvents :
        Handle_clean_report(event)
            /\ UNCHANGED <<mapVars, posVars, logVars, errVars, lifeVars, runVars, cleanVars, imgVars,
                           liveVars, connVars, fetchVars, cacheVars, subsetVars, battVars>>

SpecCleanReport == Init /\ [][NextCleanReport]_vars

NextRun ==
    \/ \E call \in RunCalls950 :
           /\ Run950(call[1], call[2], call[3])
           /\ UNCHANGED <<currentMapMID, mapVirtualBoundaries, posVars, logVars, errVars,
                          components, cleanVars, imgVars, liveVars, connVars, emitted, cacheVars, extVars>>
    \/ \E call \in RunCallsLegacy :
           /\ RunLegacy(call[1], call[2])
           /\ UNCHANGED <<mapVars, posVars, logVars, errVars, lifeVars, restVars, cacheVars>>

SpecRun == Init /\ [][NextRun]_vars

\* the devices of every capability combination
CapabilityDevices ==
    {[DefaultDevice EXCEPT !.hasMainBrush = b, !.hasUnitCareInfo = u, !.hasRoundMopInfo = m] :
        <<b, u, m>> \in BOOLEAN \X BOOLEAN \X BOOLEAN}

\* the calls of run for the life-span request
GetLifeSpanCalls ==
    Spellings(CmdGetLifeSpan)
        \X {<<>>, <<Str("filter")>>, <<Str("main_brush")>>, <<Str("round_mop")>>}
        \X CapabilityDevices

NextGetLifeSpan ==
    \/ \E call \in GetLifeSpanCalls :
           /\ Run950(call[1], call[2], call[3])
           /\ UNCHANGED <<currentMapMID, mapVirtualBoundaries, posVars, logVars, errVars,
                          components, cleanVars, imgVars, liveVars, connVars, emitted, cacheVars, extVars>>
    \/ \E payload \in {<<e>> : e \in {[type |-> "brush", left |-> 2, total |-> 3],
                                       [type |-> "heap", left |-> 0, total |-> 3]}} :
           HandleLifespan(payload) /\ UNCHANGED <<mapVars, posVars, logVars, errVars, restVars, cacheVars>>

SpecGetLifeSpan == Init /\ [][NextGetLifeSpan]_vars

Next == NextCleanReport \/ NextBattery \/ NextMapSubset \/ NextCachedMapInfo \/ NextRun \/ NextGetCleanLogs \/ NextConnection \/ NextGetLifeSpan \/ NextCleanInfo \/ NextMapInfo \/ NextLiveMap \/ NextMapSet \/ NextCleanLogs \/ NextPos \/ NextChargePos \/ NextError \/ NextLifeSpan

Spec == Init /\ [][Next]_vars

====
